---- MODULE Spec2Model ----
(***************************************************************************)
(* Verification model of the financial calculation tools                   *)
(* (src/tools/financial_tools.py) and of their callers.                    *)
(*                                                                         *)
(* Numbers.  The Python code computes in binary floating point.  The model *)
(* computes in decimal fixed point with FracLimbs * 4 = 12 fractional      *)
(* digits on unbounded magnitudes: every multiplication and division       *)
(* rounds its exact result to the nearest multiple of 10^-12 (ties to      *)
(* even), additions and subtractions are exact.  For the money amounts the *)
(* bounds below produce this is the same order of absolute rounding error  *)
(* as a double has, so statements "within rounding" are checked against    *)
(* arithmetic that really rounds.  Magnitudes are little-endian sequences  *)
(* of base-10^4 limbs because a 32-bit integer cannot hold them.           *)
(***************************************************************************)
EXTENDS Integers, Sequences, FiniteSets, TLC

Base == 10^4
FracLimbs == 3

-----------------------------------------------------------------------------
(* Natural numbers of any size: <<>> is 0, no most-significant zero limb.   *)

\* name = value followed by the statements that read name: the value is
\* computed first and Body is applied to it, so a local is computed once,
\* where it is assigned, however often it is read.
Bind(value, Body(_)) == CASE value = value -> Body(value)

Max(a, b) == IF a >= b THEN a ELSE b
Min(a, b) == IF a <= b THEN a ELSE b

RECURSIVE NatNorm(_)
NatNorm(a) ==
  IF a = <<>> THEN a
  ELSE IF a[Len(a)] = 0 THEN NatNorm(SubSeq(a, 1, Len(a) - 1))
  ELSE a

Limb(a, i) == IF i >= 1 /\ i <= Len(a) THEN a[i] ELSE 0

\* Column sums (possibly negative or >= Base) to limbs; the total is >= 0.
RECURSIVE Carry(_, _)
Carry(cols, c) ==
  IF cols = <<>>
    THEN IF c = 0 THEN <<>> ELSE <<c % Base>> \o Carry(<<>>, c \div Base)
    ELSE <<(cols[1] + c) % Base>> \o Carry(Tail(cols), (cols[1] + c) \div Base)

NatOfInt(k) == NatNorm(Carry(<<k>>, 0))

NatAdd(a, b) ==
  NatNorm(Carry([i \in 1..Max(Len(a), Len(b)) |-> Limb(a, i) + Limb(b, i)], 0))

\* a - b for a >= b
NatSub(a, b) ==
  NatNorm(Carry([i \in 1..Max(Len(a), Len(b)) |-> Limb(a, i) - Limb(b, i)], 0))

\* The limbs in which a and b of one length differ
DiffLimbs(a, b) == {i \in 1..Len(a) : a[i] # b[i]}

\* The most significant of them
TopLimb(S) == CHOOSE i \in S : \A j \in S : j <= i

NatCmpFrom(a, b, d) ==
  IF d = {} THEN 0
  ELSE IF a[TopLimb(d)] < b[TopLimb(d)] THEN -1
  ELSE 1

\* -1, 0, 1 as a < b, a = b, a > b
NatCmp(a, b) ==
  IF Len(a) < Len(b) THEN -1
  ELSE IF Len(a) > Len(b) THEN 1
  ELSE NatCmpFrom(a, b, DiffLimbs(a, b))

RECURSIVE ColSum(_, _, _, _)
ColSum(a, b, k, i) ==
  IF i > Len(a) \/ i > k THEN 0
  ELSE (IF k - i + 1 <= Len(b) THEN a[i] * b[k - i + 1] ELSE 0)
       + ColSum(a, b, k, i + 1)

NatMul(a, b) ==
  IF a = <<>> \/ b = <<>> THEN <<>>
  ELSE NatNorm(Carry([k \in 1..(Len(a) + Len(b) - 1) |-> ColSum(a, b, k, 1)], 0))

\* a * Base^n
NatShift(a, n) == IF a = <<>> THEN a ELSE [i \in 1..n |-> 0] \o a

\* The quotient limb q in lo..hi with b*q <= r < b*(q+1), by bisection.
RECURSIVE QuotLimb(_, _, _, _)
QuotLimb(r, b, lo, hi) ==
  IF lo = hi THEN lo
  ELSE Bind((lo + hi + 1) \div 2, LAMBDA mid :
         Bind(NatCmp(NatMul(b, <<mid>>), r) <= 0, LAMBDA fits :
           QuotLimb(r, b, IF fits THEN mid ELSE lo,
                          IF fits THEN hi ELSE mid - 1)))

\* One limb of the long division of a by b > 0, from the most significant
\* limb down: st.i limbs are left, st.r is the remainder and st.q the
\* quotient so far.
NatDivStep(st, a, b) ==
  Bind(NatNorm(<<a[st.i]>> \o st.r), LAMBDA cur :
    Bind(Limb(cur, Len(b)) + Base * Limb(cur, Len(b) + 1), LAMBDA ct :
      Bind(QuotLimb(cur, b, ct \div (b[Len(b)] + 1),
                    Min(Base - 1, ct \div b[Len(b)])), LAMBDA ql :
        [i |-> st.i - 1,
         r |-> NatSub(cur, NatMul(b, NatOfInt(ql))),
         q |-> <<ql>> \o st.q])))

RECURSIVE NatDivLoop(_, _, _)
NatDivLoop(st, a, b) ==
  IF st.i = 0 THEN st ELSE NatDivLoop(NatDivStep(st, a, b), a, b)

\* The factor that brings the leading limb of b to Base \div 2 or more, so
\* that the bounds NatDivLoop hands to QuotLimb are a few apart at most.
NormFactor(b) == <<Base \div (b[Len(b)] + 1)>>

\* a div b for b > 0 with a leading limb of at least Base \div 2
NatDivScaled(a, b) ==
  NatNorm(NatDivLoop([i |-> Len(a), r |-> <<>>, q |-> <<>>], a, b).q)

\* [q |-> a div b, r |-> a mod b] for b > 0
NatDivMod(a, b) ==
  Bind(NatDivScaled(NatMul(a, NormFactor(b)), NatMul(b, NormFactor(b))),
       LAMBDA q : [q |-> q, r |-> NatSub(a, NatMul(b, q))])

\* a / b rounded to the nearest natural, ties to even
NatDivRound(a, b) ==
  Bind(NatDivMod(a, b), LAMBDA d :
    Bind(NatCmp(NatAdd(d.r, d.r), b), LAMBDA c :
      IF c > 0 \/ (c = 0 /\ Limb(d.q, 1) % 2 = 1)
        THEN NatAdd(d.q, <<1>>) ELSE d.q))

RECURSIVE NatToInt(_)
NatToInt(a) == IF a = <<>> THEN 0 ELSE a[1] + Base * NatToInt(Tail(a))

-----------------------------------------------------------------------------
(* Decimal fixed-point numbers standing for Python floats: the value of     *)
(* [neg, mag] is (-1)^neg * mag / Base^FracLimbs; zero is never negative.   *)

Scale == NatShift(<<1>>, FracLimbs)

DMk(neg, mag) == [neg |-> neg /\ mag # <<>>, mag |-> mag]

DZero == DMk(FALSE, <<>>)

DOfInt(k) ==
  DMk(k < 0, NatShift(NatOfInt(IF k < 0 THEN -k ELSE k), FracLimbs))

DNeg(x) == DMk(~x.neg, x.mag)

DAdd(x, y) ==
  IF x.neg = y.neg THEN DMk(x.neg, NatAdd(x.mag, y.mag))
  ELSE IF NatCmp(x.mag, y.mag) >= 0 THEN DMk(x.neg, NatSub(x.mag, y.mag))
  ELSE DMk(y.neg, NatSub(y.mag, x.mag))

DSub(x, y) == DAdd(x, DNeg(y))

\* a / Base^n rounded to the nearest natural, ties to even: the n low limbs
\* are dropped and decide the rounding.
NatShiftRound(a, n) ==
  IF Len(a) < n THEN <<>>
  ELSE Bind(SubSeq(a, n + 1, Len(a)), LAMBDA q :
         IF \/ a[n] > Base \div 2
            \/ /\ a[n] = Base \div 2
               /\ \/ \E i \in 1..(n - 1) : a[i] # 0
                  \/ Limb(q, 1) % 2 = 1
           THEN NatAdd(q, <<1>>) ELSE q)

DMul(x, y) ==
  DMk(x.neg # y.neg, NatShiftRound(NatMul(x.mag, y.mag), FracLimbs))

\* x / y for y # 0
DDiv(x, y) ==
  DMk(x.neg # y.neg, NatDivRound(NatShift(x.mag, FracLimbs), y.mag))

\* -1, 0, 1 as x < y, x = y, x > y
DCmp(x, y) ==
  IF x.neg /\ ~y.neg THEN -1
  ELSE IF ~x.neg /\ y.neg THEN 1
  ELSE IF x.neg THEN NatCmp(y.mag, x.mag)
  ELSE NatCmp(x.mag, y.mag)

DAbs(x) == DMk(FALSE, x.mag)

\* 10^k: k \div 4 zero limbs below the limb 10^(k % 4)
Pow10Nat(k) == [i \in 1..(k \div 4) |-> 0] \o <<10 ^ (k % 4)>>

\* The decimal literal n * 10^-k of the source text, e.g. DLit(93, 2) for
\* 0.93.
DLit(n, k) ==
  DMk(n < 0, NatMul(NatOfInt(IF n < 0 THEN -n ELSE n),
                    Pow10Nat(4 * FracLimbs - k)))

\* Python's round(x, ndigits): to the nearest multiple of 10^-ndigits, ties
\* to even.
round(x, ndigits) ==
  Bind(Pow10Nat(4 * FracLimbs - ndigits), LAMBDA unit :
    DMk(x.neg, NatMul(NatDivRound(x.mag, unit), unit)))

\* x ** n for an integer n >= 0
RECURSIVE DPow(_, _)
DPow(x, n) ==
  IF n = 0 THEN DOfInt(1)
  ELSE Bind(DPow(x, n \div 2), LAMBDA h :
         Bind(DMul(h, h), LAMBDA sq :
           IF n % 2 = 1 THEN DMul(sq, x) ELSE sq))

\* A number of whole cents (or of units of 10^-k) as an integer.
UnitsOf(x, k) ==
  Bind(NatToInt(NatDivMod(x.mag, Pow10Nat(4 * FracLimbs - k)).q), LAMBDA n :
    IF x.neg THEN -n ELSE n)

Cents(x) == UnitsOf(x, 2)

-----------------------------------------------------------------------------
(* State.  A caller holds one request (req) at position pc: "call" before   *)
(* the tool runs, "done" once outcome holds what the call gave back.  now   *)
(* is the wall clock datetime.now() reads.  log lists the calls a caller    *)
(* has completed one after another; callers holds, for calls in flight at   *)
(* the same time, each caller's position, request, frame and outcome.       *)
(* locals holds the local variables of the get_mock_response call under     *)
(* way.  session_state is the dashboard's st.session_state: messages,       *)
(* token_usage, request_history and last_route.                             *)

VARIABLES pc, req, outcome, now, log, callers, locals, session_state

vars == <<pc, req, outcome, now, log, callers, locals, session_state>>

NoValue == [none |-> TRUE]

\* What a Python call gives back: a returned value or a raised exception.
Return(v) == [kind |-> "return", exc |-> "", message |-> "", value |-> v]
Raise(exc, message) ==
  [kind |-> "raise", exc |-> exc, message |-> message, value |-> NoValue]

NoOutcome == [kind |-> "none", exc |-> "", message |-> "", value |-> NoValue]

-----------------------------------------------------------------------------
(* numpy_financial.pmt(rate, nper, pv) with fv = 0 and when = 'end' (0), as *)
(* called at financial_tools.py:54 and :112.                                *)

pmtZeroRateUndivided(rate, nper, pv) ==
  IF rate = DZero THEN DNeg(pv)
  ELSE Bind(DPow(DAdd(DOfInt(1), rate), nper), LAMBDA temp :
         DNeg(DDiv(DMul(pv, temp), DDiv(DSub(temp, DOfInt(1)), rate))))

pmt(rate, nper, pv) ==
  Bind([when |-> DZero, fv |-> DZero, mask |-> rate = DZero], LAMBDA a :
    Bind(DPow(DAdd(DOfInt(1), rate), nper), LAMBDA temp :
      Bind(IF a.mask THEN DOfInt(1) ELSE rate, LAMBDA masked_rate :
        Bind(IF a.mask THEN DOfInt(nper)
             ELSE DDiv(DMul(DAdd(DOfInt(1), DMul(masked_rate, a.when)),
                            DSub(temp, DOfInt(1))),
                       masked_rate), LAMBDA fact :
          DNeg(DDiv(DAdd(a.fv, DMul(pv, temp)), fact))))))

-----------------------------------------------------------------------------
(* calculate_loan_payment                                                  *)

PaymentFrequencies == {"monthly", "biweekly", "weekly"}

RecognizedPaymentFrequencyAny(payment_frequency) == TRUE

\* The if/elif chain of lines 41-51 reaches its else branch exactly for a
\* frequency that is none of the three.
RecognizedPaymentFrequency(payment_frequency) ==
  payment_frequency \in PaymentFrequencies

\* The chain of lines 41-49 with biweekly taken as twice a month
LoanPeriodsPerYearTwiceMonthly(payment_frequency) ==
  IF payment_frequency = "monthly" THEN 12
  ELSE IF payment_frequency = "biweekly" THEN 24
  ELSE 52

LoanPeriodsPerYear(payment_frequency) ==
  IF payment_frequency = "monthly" THEN 12
  ELSE IF payment_frequency = "biweekly" THEN 26
  ELSE 52

AmortizationStepWholePayment(balance, periodic_rate, payment) ==
  Bind(DMul(balance, periodic_rate), LAMBDA interest_payment :
    Bind(DSub(payment, interest_payment), LAMBDA principal_payment :
      [interest_payment  |-> interest_payment,
       principal_payment |-> principal_payment,
       balance           |-> DSub(balance, payment)]))

\* One pass of the loop body, lines 61-63.
AmortizationStep(balance, periodic_rate, payment) ==
  Bind(DMul(balance, periodic_rate), LAMBDA interest_payment :
    Bind(DSub(payment, interest_payment), LAMBDA principal_payment :
      [interest_payment  |-> interest_payment,
       principal_payment |-> principal_payment,
       balance           |-> DSub(balance, principal_payment)]))

\* The same pass numbering the periods from 0
PreviewIterationZeroBased(st, balance, periodic_rate, payment) ==
  Bind(AmortizationStep(balance, periodic_rate, payment), LAMBDA step :
    [period   |-> st.period + 1,
     balance  |-> step.balance,
     schedule |-> Append(st.schedule,
                    [period    |-> st.period - 1,
                     payment   |-> round(payment, 2),
                     principal |-> round(step.principal_payment, 2),
                     interest  |-> round(step.interest_payment, 2),
                     balance   |-> round(step.balance, 2)])])

\* for period in range(1, min(4, periods + 1)), lines 57-71; st holds the
\* loop variable, the running balance and the schedule so far.
\* One pass of the loop, lines 61-71, from the running balance.
PreviewIteration(st, balance, periodic_rate, payment) ==
  Bind(AmortizationStep(balance, periodic_rate, payment), LAMBDA step :
    [period   |-> st.period + 1,
     balance  |-> step.balance,
     schedule |-> Append(st.schedule,
                    [period    |-> st.period,
                     payment   |-> round(payment, 2),
                     principal |-> round(step.principal_payment, 2),
                     interest  |-> round(step.interest_payment, 2),
                     balance   |-> round(step.balance, 2)])])

RECURSIVE AmortizationPreview(_, _, _, _)
AmortizationPreview(st, periods, periodic_rate, payment) ==
  IF st.period >= Min(4, periods + 1) THEN st
  ELSE AmortizationPreview(
         PreviewIteration(st, st.balance, periodic_rate, payment),
         periods, periodic_rate, payment)

\* Lines 38-51: the locals the frequency chain leaves behind.  l is the
\* frame of the call: its arguments and the locals assigned so far.
loan_periods(l) ==
  l @@ [periods       |-> l.loan_term_years
                            * LoanPeriodsPerYear(l.payment_frequency),
        periodic_rate |->
          DDiv(DDiv(l.annual_interest_rate, DOfInt(100)),
               DOfInt(LoanPeriodsPerYear(l.payment_frequency)))]

\* Line 54
loan_payment(l) ==
  l @@ [payment |-> DNeg(pmt(l.periodic_rate, l.periods, l.principal))]

\* Lines 57-71
loan_schedule(l) ==
  l @@ [schedule |->
          AmortizationPreview(
            [period |-> 1, balance |-> l.principal, schedule |-> <<>>],
            l.periods, l.periodic_rate, l.payment).schedule]

\* Lines 73-79
loan_return(l) ==
  Return([payment_amount       |-> round(l.payment, 2),
          payment_frequency    |-> l.payment_frequency,
          total_payments       |-> l.periods,
          total_interest       |->
            round(DSub(DMul(l.payment, DOfInt(l.periods)), l.principal), 2),
          amortization_preview |-> l.schedule])

\* Line 51
loan_invalid_frequency ==
  Raise("ValueError",
        "Payment frequency must be 'monthly', 'biweekly', or 'weekly'")

calculate_loan_payment(principal, annual_interest_rate, loan_term_years, payment_frequency) ==
  IF ~RecognizedPaymentFrequency(payment_frequency)
    THEN loan_invalid_frequency
    ELSE loan_return(loan_schedule(loan_payment(loan_periods(
           [principal            |-> principal,
            annual_interest_rate |-> annual_interest_rate,
            loan_term_years      |-> loan_term_years,
            payment_frequency    |-> payment_frequency]))))

-----------------------------------------------------------------------------
(* Inputs of the loan calculator.                                           *)

MaxYears == 2
MaxRateStep == 4

Principals == {DOfInt(1000), DOfInt(12000), DOfInt(250000), DLit(123456, 2)}

\* 0, 2.75, 5.5, ... percent a year
AnnualRates == {DLit(275 * n, 2) : n \in 0..MaxRateStep}

TermYears == 1..MaxYears

PaymentFrequencyInputs == PaymentFrequencies \cup {"daily", "Monthly", ""}

LoanRequests ==
  [fn : {"calculate_loan_payment"}, principal : Principals,
   annual_interest_rate : AnnualRates, loan_term_years : TermYears,
   payment_frequency : PaymentFrequencyInputs]

InitLoan ==
  /\ pc = "call" /\ req \in LoanRequests /\ outcome = NoOutcome /\ now = 0
  /\ log = <<>> /\ callers = <<>> /\ locals = <<>>
  /\ session_state = <<>>

Invoke_calculate_loan_payment ==
  /\ pc = "call"
  /\ req.fn = "calculate_loan_payment"
  /\ outcome' = calculate_loan_payment(req.principal, req.annual_interest_rate,
                                       req.loan_term_years,
                                       req.payment_frequency)
  /\ pc' = "done"
  /\ UNCHANGED <<req, now, log, callers, locals, session_state>>

NextLoan == Invoke_calculate_loan_payment

SpecLoan == InitLoan /\ [][NextLoan]_vars

-----------------------------------------------------------------------------
(* calculate_mortgage_payment                                              *)

LoanAmountClamped(home_price, down_payment) ==
  IF DCmp(down_payment, home_price) >= 0 THEN DZero
  ELSE DSub(home_price, down_payment)

\* Line 106
LoanAmount(home_price, down_payment) == DSub(home_price, down_payment)

\* Line 107
DownPaymentPercent(home_price, down_payment) ==
  DMul(DDiv(down_payment, home_price), DOfInt(100))

\* Line 121, in percent a year
PmiRate(down_payment_percent) ==
  DAdd(DLit(5, 1), DMul(DSub(DOfInt(20), down_payment_percent), DLit(25, 3)))

MonthlyPmiAtOrBelow20(include_pmi, down_payment_percent, loan_amount) ==
  IF include_pmi /\ DCmp(down_payment_percent, DOfInt(20)) <= 0
    THEN DDiv(DDiv(DMul(loan_amount, PmiRate(down_payment_percent)),
                   DOfInt(100)), DOfInt(12))
    ELSE DZero

\* Lines 119-122: monthly_pmi stays 0 unless PMI is included and the down
\* payment is below 20 percent.
MonthlyPmi(include_pmi, down_payment_percent, loan_amount) ==
  IF include_pmi /\ DCmp(down_payment_percent, DOfInt(20)) < 0
    THEN DDiv(DDiv(DMul(loan_amount, PmiRate(down_payment_percent)),
                   DOfInt(100)), DOfInt(12))
    ELSE DZero

\* Lines 106-111
mortgage_loan(l) ==
  l @@ [loan_amount          |-> LoanAmount(l.home_price, l.down_payment),
        down_payment_percent |->
          DownPaymentPercent(l.home_price, l.down_payment),
        monthly_rate         |->
          DDiv(DDiv(l.annual_interest_rate, DOfInt(100)), DOfInt(12)),
        num_payments         |-> l.loan_term_years * 12]

\* Lines 112-122
mortgage_components(l) ==
  l @@ [monthly_pi           |->
          DNeg(pmt(l.monthly_rate, l.num_payments, l.loan_amount)),
        monthly_property_tax |->
          DDiv(DDiv(DMul(l.home_price, l.property_tax_rate), DOfInt(100)),
               DOfInt(12)),
        monthly_insurance    |-> DDiv(l.annual_insurance, DOfInt(12)),
        monthly_pmi          |->
          MonthlyPmi(l.include_pmi, l.down_payment_percent, l.loan_amount)]

\* Line 125 without the PMI term
mortgage_totalWithoutPmi(l) ==
  l @@ [total_monthly_payment |->
          DAdd(DAdd(l.monthly_pi, l.monthly_property_tax),
               l.monthly_insurance)]

\* Line 125
mortgage_total(l) ==
  l @@ [total_monthly_payment |->
          DAdd(DAdd(DAdd(l.monthly_pi, l.monthly_property_tax),
                    l.monthly_insurance), l.monthly_pmi)]

\* Lines 127-136
mortgage_return(l) ==
  Return(
    [loan_amount                |-> round(l.loan_amount, 2),
     down_payment_percent       |-> round(l.down_payment_percent, 2),
     monthly_principal_interest |-> round(l.monthly_pi, 2),
     monthly_property_tax       |-> round(l.monthly_property_tax, 2),
     monthly_insurance          |-> round(l.monthly_insurance, 2),
     monthly_pmi                |-> round(l.monthly_pmi, 2),
     total_monthly_payment      |-> round(l.total_monthly_payment, 2),
     total_payment_over_term    |->
       round(DMul(l.total_monthly_payment, DOfInt(l.num_payments)), 2)])

\* Line 107 divides by home_price: a zero price raises.
mortgage_zero_price == Raise("ZeroDivisionError", "float division by zero")

calculate_mortgage_payment(home_price, down_payment, annual_interest_rate, loan_term_years, property_tax_rate, annual_insurance, include_pmi) ==
  IF home_price = DZero
    THEN mortgage_zero_price
    ELSE mortgage_return(mortgage_total(mortgage_components(mortgage_loan(
           [home_price           |-> home_price,
            down_payment         |-> down_payment,
            annual_interest_rate |-> annual_interest_rate,
            loan_term_years      |-> loan_term_years,
            property_tax_rate    |-> property_tax_rate,
            annual_insurance     |-> annual_insurance,
            include_pmi          |-> include_pmi]))))

-----------------------------------------------------------------------------
(* calculate_investment_returns                                            *)

CompoundFrequencies == {"monthly", "quarterly", "annually"}

\* The if/elif chain of lines 164-171 raises exactly for a frequency that is
\* none of the three.
RecognizedCompoundFrequency(compound_frequency) ==
  compound_frequency \in CompoundFrequencies

InvestPeriodsPerYear(compound_frequency) ==
  IF compound_frequency = "monthly" THEN 12
  ELSE IF compound_frequency = "quarterly" THEN 4
  ELSE 1

\* for _ in range(periods_per_year), lines 211-212
RECURSIVE CompoundThroughYear(_, _, _, _)
CompoundThroughYear(st, periods_per_year, periodic_rate, period_contribution) ==
  IF st.k >= periods_per_year THEN st
  ELSE CompoundThroughYear(
         [k |-> st.k + 1,
          current_value |->
            DAdd(DMul(st.current_value, DAdd(DOfInt(1), periodic_rate)),
                 period_contribution)],
         periods_per_year, periodic_rate, period_contribution)

\* The same pass taking one period's contribution for the year's
YearIterationPeriodContribution(st, periods_per_year, periodic_rate, period_contribution, monthly_contribution) ==
  Bind(st.current_value, LAMBDA year_start_value :
  Bind(CompoundThroughYear([k |-> 0, current_value |-> year_start_value],
                           periods_per_year, periodic_rate,
                           period_contribution).current_value,
       LAMBDA current_value :
  Bind(period_contribution, LAMBDA yearly_contribution :
  Bind(DSub(DSub(current_value, year_start_value), yearly_contribution),
       LAMBDA yearly_growth :
    [year          |-> st.year + 1,
     current_value |-> current_value,
     summary       |-> Append(st.summary,
        [year          |-> st.year,
         start_value   |-> round(year_start_value, 2),
         contributions |-> round(yearly_contribution, 2),
         growth        |-> round(yearly_growth, 2),
         end_value     |-> round(current_value, 2)])]))))

\* One pass of the loop over the years, lines 208-223: st holds the loop
\* variable, the running value and the summary so far.
YearIteration(st, periods_per_year, periodic_rate, period_contribution, monthly_contribution) ==
  Bind(st.current_value, LAMBDA year_start_value :
  Bind(CompoundThroughYear([k |-> 0, current_value |-> year_start_value],
                           periods_per_year, periodic_rate,
                           period_contribution).current_value,
       LAMBDA current_value :
  Bind(DMul(monthly_contribution, DOfInt(12)), LAMBDA yearly_contribution :
  Bind(DSub(DSub(current_value, year_start_value), yearly_contribution),
       LAMBDA yearly_growth :
    [year          |-> st.year + 1,
     current_value |-> current_value,
     summary       |-> Append(st.summary,
        [year          |-> st.year,
         start_value   |-> round(year_start_value, 2),
         contributions |-> round(yearly_contribution, 2),
         growth        |-> round(yearly_growth, 2),
         end_value     |-> round(current_value, 2)])]))))

\* for year in range(1, min(6, investment_period_years + 1)), lines 204-223
RECURSIVE YearlySummary(_, _, _, _, _, _)
YearlySummary(st, investment_period_years, periods_per_year, periodic_rate, period_contribution, monthly_contribution) ==
  IF st.year >= Min(6, investment_period_years + 1) THEN st
  ELSE YearlySummary(
         YearIteration(st, periods_per_year, periodic_rate,
                       period_contribution, monthly_contribution),
         investment_period_years, periods_per_year, periodic_rate,
         period_contribution, monthly_contribution)

\* Python's None
None == [none |-> TRUE]

ContributionFutureValueOnePeriod(period_contribution, periodic_rate, total_periods) ==
  IF DCmp(periodic_rate, DZero) > 0
    THEN DDiv(DMul(period_contribution,
                   DSub(DPow(DAdd(DOfInt(1), periodic_rate), total_periods),
                        DOfInt(1))),
              periodic_rate)
    ELSE period_contribution

\* Lines 185-188: the ordinary-annuity value of the contributions.
ContributionFutureValue(period_contribution, periodic_rate, total_periods) ==
  IF DCmp(periodic_rate, DZero) > 0
    THEN DDiv(DMul(period_contribution,
                   DSub(DPow(DAdd(DOfInt(1), periodic_rate), total_periods),
                        DOfInt(1))),
              periodic_rate)
    ELSE DMul(period_contribution, DOfInt(total_periods))

\* Lines 161-175
invest_periods(l) ==
  l @@ [periods_per_year |-> InvestPeriodsPerYear(l.compound_frequency),
        periodic_rate    |->
          DDiv(DDiv(l.annual_return_rate, DOfInt(100)),
               DOfInt(InvestPeriodsPerYear(l.compound_frequency))),
        total_periods    |-> l.investment_period_years
                               * InvestPeriodsPerYear(l.compound_frequency)]

\* Lines 178-188 and 191
invest_values(l) ==
  l @@ [period_contribution |->
          DMul(l.monthly_contribution,
               DDiv(DOfInt(12), DOfInt(l.periods_per_year))),
        future_value        |->
          DMul(l.initial_investment,
               DPow(DAdd(DOfInt(1), l.periodic_rate), l.total_periods)),
        total_contributions |->
          DAdd(l.initial_investment,
               DMul(DMul(l.monthly_contribution, DOfInt(12)),
                    DOfInt(l.investment_period_years)))]

\* Lines 185-190
invest_total(l) ==
  l @@ [total_future_value |->
          DAdd(l.future_value,
               ContributionFutureValue(l.period_contribution, l.periodic_rate,
                                       l.total_periods))]

\* Line 192
invest_earnings(l) ==
  l @@ [total_earnings |-> DSub(l.total_future_value, l.total_contributions)]

\* Lines 195-199
invest_after_tax(l) ==
  l @@ [after_tax_earnings |->
          IF l.tax_rate # None
            THEN DMul(l.total_earnings,
                      DSub(DOfInt(1), DDiv(l.tax_rate, DOfInt(100))))
            ELSE l.total_earnings]

\* Lines 200-201
invest_after_tax_value(l) ==
  l @@ [after_tax_future_value |->
          IF l.tax_rate # None
            THEN DAdd(l.total_contributions, l.after_tax_earnings)
            ELSE l.total_future_value]

\* Lines 203-223
invest_summary(l) ==
  l @@ [yearly_summary |->
          YearlySummary(
            [year |-> 1, current_value |-> l.initial_investment,
             summary |-> <<>>],
            l.investment_period_years, l.periods_per_year, l.periodic_rate,
            l.period_contribution, l.monthly_contribution).summary]

\* Lines 225-233 with the two conditions read as truth tests of tax_rate
invest_returnTruthyTax(l) ==
  Return(
    [total_future_value     |-> round(l.total_future_value, 2),
     total_contributions    |-> round(l.total_contributions, 2),
     total_earnings         |-> round(l.total_earnings, 2),
     after_tax_earnings     |->
       IF l.tax_rate # None /\ l.tax_rate # DZero
         THEN round(l.after_tax_earnings, 2) ELSE None,
     after_tax_future_value |->
       IF l.tax_rate # None /\ l.tax_rate # DZero
         THEN round(l.after_tax_future_value, 2) ELSE None,
     compound_frequency     |-> l.compound_frequency,
     yearly_summary         |-> l.yearly_summary])

\* Lines 225-233
invest_return(l) ==
  Return(
    [total_future_value     |-> round(l.total_future_value, 2),
     total_contributions    |-> round(l.total_contributions, 2),
     total_earnings         |-> round(l.total_earnings, 2),
     after_tax_earnings     |->
       IF l.tax_rate # None THEN round(l.after_tax_earnings, 2) ELSE None,
     after_tax_future_value |->
       IF l.tax_rate # None THEN round(l.after_tax_future_value, 2)
       ELSE None,
     compound_frequency     |-> l.compound_frequency,
     yearly_summary         |-> l.yearly_summary])

\* Line 171
invest_invalid_frequency ==
  Raise("ValueError",
        "Compound frequency must be 'monthly', 'quarterly', or 'annually'")

calculate_investment_returns(initial_investment, monthly_contribution, annual_return_rate, investment_period_years, compound_frequency, tax_rate) ==
  IF ~RecognizedCompoundFrequency(compound_frequency)
    THEN invest_invalid_frequency
    ELSE invest_return(invest_summary(invest_after_tax_value(
           invest_after_tax(invest_earnings(invest_total(invest_values(
             invest_periods(
               [initial_investment      |-> initial_investment,
                monthly_contribution    |-> monthly_contribution,
                annual_return_rate      |-> annual_return_rate,
                investment_period_years |-> investment_period_years,
                compound_frequency      |-> compound_frequency,
                tax_rate                |-> tax_rate]))))))))

-----------------------------------------------------------------------------
(* get_exchange_rate.  A Python str is a sequence of one-character strings. *)

LowerLetters ==
  <<"a", "b", "c", "d", "e", "f", "g", "h", "i", "j", "k", "l", "m",
    "n", "o", "p", "q", "r", "s", "t", "u", "v", "w", "x", "y", "z">>

UpperLetters ==
  <<"A", "B", "C", "D", "E", "F", "G", "H", "I", "J", "K", "L", "M",
    "N", "O", "P", "Q", "R", "S", "T", "U", "V", "W", "X", "Y", "Z">>

UpperChar(c) ==
  IF \E i \in 1..Len(LowerLetters) : LowerLetters[i] = c
    THEN UpperLetters[CHOOSE i \in 1..Len(LowerLetters) : LowerLetters[i] = c]
    ELSE c

\* str.upper()
upper(str) == [i \in 1..Len(str) |-> UpperChar(str[i])]

\* The dict literal of lines 313-324, in insertion order.
mock_rates ==
  << [key |-> <<"U", "S", "D">>, rate |-> DLit(10, 1)],
     [key |-> <<"E", "U", "R">>, rate |-> DLit(93, 2)],
     [key |-> <<"G", "B", "P">>, rate |-> DLit(78, 2)],
     [key |-> <<"J", "P", "Y">>, rate |-> DLit(1512, 1)],
     [key |-> <<"C", "A", "D">>, rate |-> DLit(137, 2)],
     [key |-> <<"A", "U", "D">>, rate |-> DLit(152, 2)],
     [key |-> <<"C", "H", "F">>, rate |-> DLit(91, 2)],
     [key |-> <<"C", "N", "Y">>, rate |-> DLit(725, 2)],
     [key |-> <<"I", "N", "R">>, rate |-> DLit(834, 1)],
     [key |-> <<"M", "X", "N">>, rate |-> DLit(168, 1)] >>

\* key in d
InDict(d, key) == \E i \in 1..Len(d) : d[i].key = key

\* d[key]
Lookup(d, key) == d[CHOOSE i \in 1..Len(d) : d[i].key = key].rate

\* ', '.join(d.keys())
RECURSIVE JoinKeys(_, _)
JoinKeys(d, i) ==
  IF i > Len(d) THEN <<>>
  ELSE (IF i > 1 THEN <<",", " ">> ELSE <<>>) \o d[i].key \o JoinKeys(d, i + 1)

\* Lines 338-344 for two supported codes.
ConvertInverted(rates, from_currency, to_currency, amount) ==
  Bind(Lookup(rates, from_currency), LAMBDA usd_to_from :
    Bind(Lookup(rates, to_currency), LAMBDA usd_to_to :
      Bind(DDiv(usd_to_from, usd_to_to), LAMBDA rate :
        [rate |-> rate, converted_amount |-> DMul(amount, rate)])))

Convert(rates, from_currency, to_currency, amount) ==
  Bind(Lookup(rates, from_currency), LAMBDA usd_to_from :
    Bind(Lookup(rates, to_currency), LAMBDA usd_to_to :
      Bind(DDiv(usd_to_to, usd_to_from), LAMBDA rate :
        [rate |-> rate, converted_amount |-> DMul(amount, rate)])))

SupportedEither(rates, from_currency, to_currency) ==
  InDict(rates, from_currency) \/ InDict(rates, to_currency)

\* Line 332 negated: both codes are keys of the table.
Supported(rates, from_currency, to_currency) ==
  InDict(rates, from_currency) /\ InDict(rates, to_currency)

\* clock is what datetime.now() reads during the call.  A key missing at
\* lines 339-340 is a KeyError, which the except clause of lines 355-359
\* turns into the second error payload.
\* Lines 313-328: the table is built by the call and the codes upper-cased.
fx_table(l) ==
  [l EXCEPT !.from_currency = upper(@), !.to_currency = upper(@)]
    @@ [mock_rates |-> mock_rates]

\* Lines 338-344
fx_convert(l) ==
  l @@ Convert(l.mock_rates, l.from_currency, l.to_currency, l.amount)

\* Lines 332-336
fx_unsupported(l) ==
  Return([error   |-> TRUE,
          message |->
            [text  |-> "Currency not supported. Supported currencies: ",
             codes |-> JoinKeys(l.mock_rates, 1)]])

\* Lines 355-359: what the except clause returns for the KeyError a missing
\* key would raise at lines 339-340.
fx_failed(l) ==
  Return([error   |-> TRUE,
          message |-> [text  |-> "Failed to get exchange rate: ",
                       codes |-> <<>>]])

fx_returnLiveRate(l, clock) ==
  Return([from_currency    |-> l.from_currency,
          to_currency      |-> l.to_currency,
          exchange_rate    |-> round(DAdd(l.rate, DLit(clock, 2)), 6),
          amount           |-> l.amount,
          converted_amount |-> round(l.converted_amount, 2),
          timestamp        |-> [isoformat |-> clock]])

\* Lines 346-353; clock is what datetime.now() reads.
fx_return(l, clock) ==
  Return([from_currency    |-> l.from_currency,
          to_currency      |-> l.to_currency,
          exchange_rate    |-> round(l.rate, 6),
          amount           |-> l.amount,
          converted_amount |-> round(l.converted_amount, 2),
          timestamp        |-> [isoformat |-> clock]])

fx_checked(l, clock) ==
  IF ~Supported(l.mock_rates, l.from_currency, l.to_currency)
    THEN fx_unsupported(l)
  ELSE IF ~InDict(l.mock_rates, l.from_currency)
          \/ ~InDict(l.mock_rates, l.to_currency)
    THEN fx_failed(l)
  ELSE fx_return(fx_convert(l), clock)

get_exchange_rate(from_currency, to_currency, amount, clock) ==
  fx_checked(fx_table([from_currency |-> from_currency,
                       to_currency   |-> to_currency,
                       amount        |-> amount]), clock)

-----------------------------------------------------------------------------
(* Requests and the calls that serve them.                                  *)

HomePrices == {DZero, DOfInt(100000), DOfInt(300000)}

DownPayments ==
  {DOfInt(d) : d \in {0, 19000, 20000, 57000, 60000, 100000, 350000}}

MortgageRequests ==
  [fn : {"calculate_mortgage_payment"}, home_price : HomePrices,
   down_payment : DownPayments, annual_interest_rate : AnnualRates,
   loan_term_years : TermYears, property_tax_rate : {DLit(10, 1)},
   annual_insurance : {DOfInt(1000)}, include_pmi : BOOLEAN]

InitMortgage ==
  /\ pc = "call" /\ req \in MortgageRequests /\ outcome = NoOutcome
  /\ now = 0 /\ log = <<>> /\ callers = <<>> /\ locals = <<>>
  /\ session_state = <<>>

Invoke_calculate_mortgage_payment ==
  /\ pc = "call"
  /\ req.fn = "calculate_mortgage_payment"
  /\ outcome' = calculate_mortgage_payment(
                  req.home_price, req.down_payment, req.annual_interest_rate,
                  req.loan_term_years, req.property_tax_rate,
                  req.annual_insurance, req.include_pmi)
  /\ pc' = "done"
  /\ UNCHANGED <<req, now, log, callers, locals, session_state>>

SpecMortgage == InitMortgage /\ [][Invoke_calculate_mortgage_payment]_vars

MaxInvestYears == 6
MaxReturnStep == 2

InitialInvestments == {DZero, DOfInt(1000)}

MonthlyContributions == {DZero, DLit(10050, 2)}

\* -2.75, 0, 2.75, ... percent a year
ReturnRates == {DLit(275 * n, 2) : n \in -1..MaxReturnStep}

CompoundFrequencyInputs == CompoundFrequencies \cup {"daily", "Annually"}

TaxRates == {None, DZero, DOfInt(15)}

InvestmentRequests ==
  [fn : {"calculate_investment_returns"},
   initial_investment : InitialInvestments,
   monthly_contribution : MonthlyContributions,
   annual_return_rate : ReturnRates,
   investment_period_years : 1..MaxInvestYears,
   compound_frequency : CompoundFrequencyInputs, tax_rate : TaxRates]

InitInvestment ==
  /\ pc = "call" /\ req \in InvestmentRequests /\ outcome = NoOutcome
  /\ now = 0 /\ log = <<>> /\ callers = <<>> /\ locals = <<>>
  /\ session_state = <<>>

Invoke_calculate_investment_returns ==
  /\ pc = "call"
  /\ req.fn = "calculate_investment_returns"
  /\ outcome' = calculate_investment_returns(
                  req.initial_investment, req.monthly_contribution,
                  req.annual_return_rate, req.investment_period_years,
                  req.compound_frequency, req.tax_rate)
  /\ pc' = "done"
  /\ UNCHANGED <<req, now, log, callers, locals, session_state>>

SpecInvestment == InitInvestment /\ [][Invoke_calculate_investment_returns]_vars

MaxNow == 1

CurrencyCodeInputs ==
  { <<"U", "S", "D">>, <<"u", "s", "d">>, <<"E", "u", "r">>,
    <<"j", "p", "y">>, <<"G", "B", "P">>, <<"i", "N", "r">>,
    <<"X", "Y", "Z">>, <<"u", "s">>, <<>> }

Amounts == {DOfInt(1), DOfInt(100), DZero, DLit(123456, 2), DLit(125, 3),
            DOfInt(1000000)}

ExchangeRequests ==
  [fn : {"get_exchange_rate"}, from_currency : CurrencyCodeInputs,
   to_currency : CurrencyCodeInputs, amount : Amounts]

InitExchange ==
  /\ pc = "call" /\ req \in ExchangeRequests /\ outcome = NoOutcome
  /\ now \in 0..MaxNow /\ log = <<>> /\ callers = <<>> /\ locals = <<>>
  /\ session_state = <<>>

Invoke_get_exchange_rate ==
  /\ pc = "call"
  /\ req.fn = "get_exchange_rate"
  /\ outcome' = get_exchange_rate(req.from_currency, req.to_currency,
                                  req.amount, now)
  /\ pc' = "done"
  /\ UNCHANGED <<req, now, log, callers, locals, session_state>>

SpecExchange == InitExchange /\ [][Invoke_get_exchange_rate]_vars

\* The two calculators that validate an enumerated parameter.
SpecValidation ==
  /\ InitLoan \/ InitInvestment
  /\ [][Invoke_calculate_loan_payment
        \/ Invoke_calculate_investment_returns]_vars

-----------------------------------------------------------------------------
(* Callers.  The loan agent holds calculate_loan_payment,                   *)
(* calculate_mortgage_payment and get_exchange_rate as tools, the           *)
(* investment agent calculate_investment_returns                            *)
(* (src/agent_configs/agent_definitions.py).                                *)

NoRequest == [fn |-> "none"]

\* One call of each tool and a second loan.
RequestList ==
  << [fn |-> "calculate_loan_payment", principal |-> DOfInt(12000),
     annual_interest_rate |-> DLit(550, 2), loan_term_years |-> 1,
     payment_frequency |-> "monthly"],
    [fn |-> "calculate_loan_payment", principal |-> DOfInt(1000),
     annual_interest_rate |-> DLit(550, 2), loan_term_years |-> 1,
     payment_frequency |-> "monthly"],
    [fn |-> "calculate_mortgage_payment", home_price |-> DOfInt(300000),
     down_payment |-> DOfInt(57000), annual_interest_rate |-> DLit(550, 2),
     loan_term_years |-> 1, property_tax_rate |-> DLit(10, 1),
     annual_insurance |-> DOfInt(1000), include_pmi |-> TRUE],
    [fn |-> "calculate_investment_returns",
     initial_investment |-> DOfInt(1000),
     monthly_contribution |-> DLit(10050, 2),
     annual_return_rate |-> DLit(550, 2), investment_period_years |-> 1,
     compound_frequency |-> "quarterly", tax_rate |-> DOfInt(15)],
    [fn |-> "get_exchange_rate", from_currency |-> <<"u", "s", "d">>,
     to_currency |-> <<"E", "U", "R">>, amount |-> DOfInt(100)] >>

SampleRequests ==
  {RequestList[i] : i \in 1..Len(RequestList)}
    \cup { [fn |-> "get_exchange_rate", from_currency |-> <<"U", "S", "D">>,
            to_currency |-> <<"X", "Y", "Z">>, amount |-> DOfInt(100)] }

\* The wall clock advances.
Tick ==
  /\ now < MaxNow
  /\ now' = now + 1
  /\ UNCHANGED <<pc, req, outcome, log, callers, locals, session_state>>

(* One caller making one call after another. *)

MaxCalls == 3

InitSession ==
  /\ pc = "idle" /\ req = NoRequest /\ outcome = NoOutcome /\ now = 0
  /\ log = <<>> /\ callers = <<>> /\ locals = <<>>
  /\ session_state = <<>>

\* The agent calls a tool.
Submit ==
  /\ pc = "idle"
  /\ Len(log) < MaxCalls
  /\ req' \in SampleRequests
  /\ pc' = "call"
  /\ UNCHANGED <<outcome, now, log, callers, locals, session_state>>

\* The agent takes what the tool gave back.
Collect ==
  /\ pc = "done"
  /\ log' = Append(log, [req |-> req, outcome |-> outcome])
  /\ pc' = "idle"
  /\ req' = NoRequest
  /\ outcome' = NoOutcome
  /\ UNCHANGED <<now, callers, locals, session_state>>

NextSession ==
  \/ Submit
  \/ Invoke_calculate_loan_payment
  \/ Invoke_calculate_mortgage_payment
  \/ Invoke_calculate_investment_returns
  \/ Invoke_get_exchange_rate
  \/ Collect
  \/ Tick

SpecSession == InitSession /\ [][NextSession]_vars

(* Calls in flight at the same time.  Each call runs statement by           *)
(* statement on a frame of its own; the statements of different calls       *)
(* interleave in any order.  overlapped records that a call finished while  *)
(* another call was between its first and last statement.                   *)

NumCallers == 2

Callers == 1..NumCallers

\* The arguments of a request: the frame a call starts with.
ArgsOf(r) == [f \in DOMAIN r \ {"fn"} |-> r[f]]

Goto(me, at, frame) == [me EXCEPT !.pc = at, !.frame = frame]

Finish(me, result) == [me EXCEPT !.pc = "done", !.outcome = result]

running_balanceGlobal(cs, c) ==
  IF \E d \in DOMAIN cs : d # c /\ cs[d].pc = "loop"
    THEN cs[CHOOSE d \in DOMAIN cs : d # c /\ cs[d].pc = "loop"].frame.balance
    ELSE cs[c].frame.balance

\* balance is a local of the call (line 58): the balance caller c reads at
\* line 61 is the one its own frame holds.
running_balance(cs, c) == cs[c].frame.balance

\* The next statements of calculate_loan_payment for the caller me: the
\* validation and the payment, then one pass of the loop at a time, the
\* return statement after the last.
LoanStep(me, balance) ==
  IF me.pc = "call"
    THEN IF ~RecognizedPaymentFrequency(me.req.payment_frequency)
           THEN Finish(me, loan_invalid_frequency)
           ELSE Goto(me, "loop",
                     loan_payment(loan_periods(ArgsOf(me.req)))
                       @@ [period |-> 1, balance |-> me.req.principal,
                           schedule |-> <<>>])
  ELSE IF me.frame.period >= Min(4, me.frame.periods + 1)
    THEN Finish(me, loan_return(me.frame))
    ELSE Goto(me, "loop",
              PreviewIteration(me.frame, balance, me.frame.periodic_rate,
                               me.frame.payment)
                @@ me.frame)

\* The next statements of calculate_mortgage_payment.
MortgageStep(me) ==
  IF me.pc = "call"
    THEN IF me.req.home_price = DZero
           THEN Finish(me, mortgage_zero_price)
           ELSE Goto(me, "components", mortgage_loan(ArgsOf(me.req)))
  ELSE IF me.pc = "components"
    THEN Goto(me, "return", mortgage_total(mortgage_components(me.frame)))
  ELSE Finish(me, mortgage_return(me.frame))

\* The next statements of calculate_investment_returns.
InvestStep(me) ==
  IF me.pc = "call"
    THEN IF ~RecognizedCompoundFrequency(me.req.compound_frequency)
           THEN Finish(me, invest_invalid_frequency)
           ELSE Goto(me, "values", invest_periods(ArgsOf(me.req)))
  ELSE IF me.pc = "values"
    THEN Goto(me, "return",
              invest_summary(invest_after_tax_value(invest_after_tax(
                invest_earnings(invest_total(invest_values(me.frame)))))))
  ELSE Finish(me, invest_return(me.frame))

\* The next statements of get_exchange_rate.
FxStep(me, clock) ==
  IF me.pc = "call"
    THEN Goto(me, "check", fx_table(ArgsOf(me.req)))
  ELSE IF me.pc = "check"
    THEN IF ~Supported(me.frame.mock_rates, me.frame.from_currency,
                       me.frame.to_currency)
           THEN Finish(me, fx_unsupported(me.frame))
         ELSE IF ~InDict(me.frame.mock_rates, me.frame.from_currency)
                 \/ ~InDict(me.frame.mock_rates, me.frame.to_currency)
           THEN Finish(me, fx_failed(me.frame))
         ELSE Goto(me, "return", fx_convert(me.frame))
  ELSE Finish(me, fx_return(me.frame, clock))

\* Caller c runs its next statement and becomes next_me.
Run(c, fn, next_me) ==
  /\ callers[c].req.fn = fn
  /\ callers[c].pc # "done"
  /\ callers' =
       [callers EXCEPT ![c] =
          [next_me EXCEPT !.overlapped =
             /\ next_me.pc = "done"
             /\ \E d \in Callers \ {c} : callers[d].pc \notin {"call", "done"}]]
  /\ UNCHANGED <<pc, req, outcome, now, log, locals, session_state>>

Run_calculate_loan_payment(c) ==
  Run(c, "calculate_loan_payment",
      LoanStep(callers[c], running_balance(callers, c)))

Run_calculate_mortgage_payment(c) ==
  Run(c, "calculate_mortgage_payment", MortgageStep(callers[c]))

Run_calculate_investment_returns(c) ==
  Run(c, "calculate_investment_returns", InvestStep(callers[c]))

Run_get_exchange_rate(c) ==
  Run(c, "get_exchange_rate", FxStep(callers[c], now))

\* Every caller has made a call.  The callers run the same code, so which of
\* them makes which call does not matter: the calls are handed out in the
\* order of RequestList.
InitConcurrent ==
  /\ pc = "idle" /\ req = NoRequest /\ outcome = NoOutcome
  /\ now = 0 /\ log = <<>> /\ locals = <<>>
  /\ session_state = <<>>
  /\ \E f \in [Callers -> 1..Len(RequestList)] :
       /\ \A c \in Callers : \A d \in Callers : c < d => f[c] <= f[d]
       /\ callers = [c \in Callers |->
                       [pc |-> "call", req |-> RequestList[f[c]],
                        frame |-> <<>>, outcome |-> NoOutcome,
                        overlapped |-> FALSE]]

NextConcurrent ==
  \E c \in Callers :
    \/ Run_calculate_loan_payment(c)
    \/ Run_calculate_mortgage_payment(c)
    \/ Run_calculate_investment_returns(c)
    \/ Run_get_exchange_rate(c)

SpecConcurrent == InitConcurrent /\ [][NextConcurrent]_vars

-----------------------------------------------------------------------------
(* mock_gateway_api.py.  Python strs are TLA+ strings here; an              *)
(* Optional[str] is <<>> for None and <<s>> for the str s.                  *)

NoStr == <<>>

SomeStr(s) == <<s>>

\* Lines 13-18
INVESTMENT_RESPONSES ==
  << "Based on your risk tolerance and goals, I recommend a diversified portfolio with 60% stocks, 30% bonds, and 10% cash equivalents. This allocation provides a good balance between growth and stability.",
     "For long-term investment, index funds are generally a cost-effective strategy. Consider allocating a portion of your portfolio to a total market index fund to gain broad market exposure.",
     "Dollar-cost averaging can be an effective strategy for investing in volatile markets. By investing a fixed amount regularly, you buy more shares when prices are low and fewer when prices are high.",
     "When planning for retirement, consider tax-advantaged accounts like 401(k)s and IRAs. These accounts offer tax benefits that can significantly increase your long-term returns." >>

\* Lines 20-25
LOAN_RESPONSES ==
  << "Based on your income and debt-to-income ratio, you might qualify for a mortgage of approximately $350,000. With current interest rates, your monthly payment would be around $1,800 including principal, interest, taxes, and insurance.",
     "For a $25,000 auto loan over 5 years at 4.5% interest, your monthly payment would be approximately $466. The total interest paid over the life of the loan would be about $2,960.",
     "Refinancing your mortgage could make sense if you can lower your interest rate by at least 0.75 percentage points. With current rates, you could save approximately $200 per month on your payment.",
     "When comparing loan offers, pay attention to the APR, not just the interest rate. The APR includes fees and gives you a more accurate picture of the total cost of borrowing." >>

\* Lines 27-32
CUSTOMER_SERVICE_RESPONSES ==
  << "To open a new account, you'll need to provide identification (such as a driver's license or passport), proof of address, and your Social Security number. You can start this process online or visit a branch for assistance.",
     "Mobile check deposit is available through our mobile app. Simply endorse the check, take photos of the front and back, and submit through the app. Funds are typically available within 1-2 business days.",
     "Our international wire transfer service allows you to send money worldwide. Transfers typically arrive within 1-3 business days, and fees vary based on the destination country and amount sent.",
     "If you notice an unauthorized transaction on your account, please contact us immediately at our fraud hotline. Your liability is limited if you report fraud promptly." >>

\* Lines 34-39
GENERAL_RESPONSES ==
  << "Financial planning is a process that helps you make informed decisions about your money to achieve your life goals. It typically includes budgeting, saving, investing, debt management, and insurance planning.",
     "A good emergency fund typically contains 3-6 months of essential expenses, kept in easily accessible accounts like high-yield savings accounts or money market funds.",
     "The Rule of 72 is a simple way to estimate how long it will take for an investment to double. Divide 72 by the annual return rate to get the approximate number of years.",
     "Compound interest is the addition of interest to the principal sum of a loan or deposit, or in other words, interest on interest. It is the result of reinvesting interest, rather than paying it out." >>

\* Lines 42-68
MODELS ==
  [investment |->
     << [name |-> "gpt-4-1106-preview", provider |-> "openai",
         latency_range |-> <<DLit(8, 1), DLit(15, 1)>>],
        [name |-> "claude-3-opus-20240229", provider |-> "anthropic",
         latency_range |-> <<DLit(9, 1), DLit(17, 1)>>] >>,
   loan |->
     << [name |-> "gpt-4-1106-preview", provider |-> "openai",
         latency_range |-> <<DLit(5, 1), DLit(12, 1)>>] >>,
   customer |->
     << [name |-> "claude-3-sonnet-20240229", provider |-> "anthropic",
         latency_range |-> <<DLit(7, 1), DLit(13, 1)>>] >>,
   general |->
     << [name |-> "gemini-1.5-pro", provider |-> "google",
         latency_range |-> <<DLit(6, 1), DLit(11, 1)>>] >>]
  @@ ("investment-local" :>
        << [name |-> "llama3-8b", provider |-> "ollama",
            latency_range |-> <<DLit(3, 1), DLit(8, 1)>>],
           [name |-> "mistral-7b", provider |-> "ollama",
            latency_range |-> <<DLit(2, 1), DLit(7, 1)>>] >>)
  @@ ("loan-local" :>
        << [name |-> "llama3-8b", provider |-> "ollama",
            latency_range |-> <<DLit(2, 1), DLit(6, 1)>>],
           [name |-> "phi-2", provider |-> "ollama",
            latency_range |-> <<DLit(1, 1), DLit(5, 1)>>] >>)
  @@ ("customer-local" :>
        << [name |-> "mistral-7b", provider |-> "ollama",
            latency_range |-> <<DLit(2, 1), DLit(7, 1)>>],
           [name |-> "solar-10.7b", provider |-> "ollama",
            latency_range |-> <<DLit(3, 1), DLit(9, 1)>>] >>)

\* Line 71
OLLAMA_MODELS ==
  <<"llama3-8b", "mistral-7b", "phi-2", "codellama-7b", "solar-10.7b">>

\* x in seq, for a list
InList(x, seq) == \E i \in 1..Len(seq) : seq[i] = x

\* sub in s, for two strs
Contains(s, sub) ==
  \E i \in 1..(Len(s) - Len(sub) + 1) : SubSeq(s, i, i + Len(sub) - 1) = sub

SlashPositions(s) == {i \in 1..Len(s) : SubSeq(s, i, i) = "/"}

\* s.split("/")[-1]: what follows the last "/" of s, all of s without one
LastSegment(s) ==
  IF SlashPositions(s) = {} THEN s
  ELSE SubSeq(s,
              (CHOOSE i \in SlashPositions(s) :
                 \A j \in SlashPositions(s) : j <= i) + 1,
              Len(s))

\* Lines 73-76
simulate_token_count(text) == Len(text) \div 4

\* random.choice(seq), drawing position u of the random source
choice(seq, u) == seq[(u % Len(seq)) + 1]

\* Line 92
gw_query_type(l) == l @@ [query_type |-> LastSegment(l.route)]

\* "<base>-local" if "local" in query_type else "<base>"
LocalOrCloud(query_type, base) ==
  IF Contains(query_type, "local") THEN base \o "-local" ELSE base

\* Lines 95-109.  The else branch assigns no model_category.
gw_select(l, u) ==
  IF Contains(l.query_type, "investment")
    THEN l @@ [responses      |-> INVESTMENT_RESPONSES,
               model_category |-> LocalOrCloud(l.query_type, "investment"),
               model_info     |->
                 choice(MODELS[LocalOrCloud(l.query_type, "investment")], u)]
  ELSE IF Contains(l.query_type, "loan")
    THEN l @@ [responses      |-> LOAN_RESPONSES,
               model_category |-> LocalOrCloud(l.query_type, "loan"),
               model_info     |->
                 choice(MODELS[LocalOrCloud(l.query_type, "loan")], u)]
  ELSE IF Contains(l.query_type, "customer")
    THEN l @@ [responses      |-> CUSTOMER_SERVICE_RESPONSES,
               model_category |-> LocalOrCloud(l.query_type, "customer"),
               model_info     |->
                 choice(MODELS[LocalOrCloud(l.query_type, "customer")], u)]
  ELSE l @@ [responses  |-> GENERAL_RESPONSES,
             model_info |-> choice(MODELS["general"], u)]

\* Line 112: custom_model and custom_model in OLLAMA_MODELS
CustomModelRecognized(custom_model) ==
  /\ custom_model # NoStr
  /\ custom_model[1] # ""
  /\ InList(custom_model[1], OLLAMA_MODELS)

\* Lines 112-117
gw_override(l) ==
  IF CustomModelRecognized(l.custom_model)
    THEN [l EXCEPT !.model_info =
            [name |-> l.custom_model[1], provider |-> "ollama",
             latency_range |-> <<DLit(2, 1), DLit(8, 1)>>]]
    ELSE l

\* Line 120
gw_response(l, u) == l @@ [response_text |-> choice(l.responses, u)]

\* Lines 129-130
gw_tokens(l) ==
  l @@ [input_tokens  |-> simulate_token_count(l.prompt),
        output_tokens |-> simulate_token_count(l.response_text)]

\* Line 136
RateLimitChance(model_info) ==
  IF model_info.provider = "ollama" THEN DLit(3, 2) ELSE DLit(1, 1)

\* Lines 133-137; roll is what random.random() gives.
gw_rate_limit(l, roll) ==
  l @@ [rate_limited |->
          IF "Rate Limiting" \in l.demo_modes
            THEN DCmp(roll, RateLimitChance(l.model_info)) < 0
            ELSE FALSE]

\* Lines 140-144
gw_rate_limited ==
  Return([error       |-> "rate_limit_exceeded",
          message     |->
            "You have exceeded your rate limit. Please try again later.",
          retry_after |-> 30])

\* Line 151
FallbackChance(model_info) ==
  IF model_info.provider = "ollama" THEN DLit(5, 2) ELSE DLit(15, 2)

\* Lines 147-152
gw_fallback_roll(l, roll) ==
  l @@ [used_fallback  |->
          IF "Model Fallback" \in l.demo_modes
            THEN DCmp(roll, FallbackChance(l.model_info)) < 0
            ELSE FALSE,
        original_model |-> l.model_info.name]

\* Line 155 reads model_category, which the general branch never assigned.
gw_unbound_category(l) == l.used_fallback /\ "model_category" \notin DOMAIN l

gw_unbound_local ==
  Raise("UnboundLocalError",
        "cannot access local variable 'model_category' where it is not associated with a value")

\* Line 155
gw_model_key(l) ==
  l @@ [model_key |->
          IF l.model_category \in DOMAIN MODELS
            THEN l.model_category ELSE l.query_type]

\* Line 156
gw_fallback_options(l) ==
  l @@ [fallback_options |->
          SelectSeq(MODELS[l.model_key],
                    LAMBDA m : m.name # l.original_model)]

\* Lines 157-158
gw_fallback_model(l, u) ==
  IF l.fallback_options # <<>>
    THEN [l EXCEPT !.model_info = choice(l.fallback_options, u)]
    ELSE l

\* Lines 153-158
gw_fallback(l, u) ==
  IF l.used_fallback
    THEN gw_fallback_model(gw_fallback_options(gw_model_key(l)), u)
    ELSE l

\* Lines 161-174
gw_return(l, clock, request_number) ==
  Return([response       |-> l.response_text,
          model          |-> l.model_info.name,
          provider       |-> l.model_info.provider,
          used_fallback  |-> l.used_fallback,
          original_model |->
            IF l.used_fallback THEN SomeStr(l.original_model) ELSE NoStr,
          timestamp      |-> [isoformat |-> clock],
          usage          |->
            [input_tokens  |-> l.input_tokens,
             output_tokens |-> l.output_tokens,
             total_tokens  |-> l.input_tokens + l.output_tokens],
          request_id     |-> "req_" \o ToString(request_number)])

\* The routes of the dashboard (app.py lines 117-129) and a -local general
\* route.
Routes ==
  {"/v1/investment", "/v1/loan", "/v1/customer", "/v1/general",
   "/v1/investment-local", "/v1/loan-local", "/v1/customer-local",
   "/v1/general-local"}

Prompts == {"", "What is compound interest?"}

\* Selections of the multiselect of app.py lines 151-155; the last is its
\* default.
DemoModeSets ==
  { {}, {"Rate Limiting"}, {"Model Fallback"},
    {"Rate Limiting", "Model Fallback"},
    {"Rate Limiting", "Model Fallback", "Latency Metrics"},
    {"Token Usage", "Latency Metrics"} }

CustomModels ==
  {NoStr, SomeStr("gpt-4"), SomeStr("llama3-8b"), SomeStr("codellama-7b")}

GatewayRequests ==
  [fn : {"get_mock_response"}, route : Routes, prompt : Prompts,
   demo_modes : DemoModeSets, custom_model : CustomModels]

\* Positions random.choice may draw
ChoiceDraws == 0..3

\* Values random.random() may give: below 0.03, between 0.03 and 0.05,
\* between 0.1 and 0.15, above 0.15
Rolls == {DZero, DLit(4, 2), DLit(12, 2), DLit(5, 1)}

\* Values random.randint(10000, 99999) may give
RequestNumbers == {10000, 99999}

InitGateway ==
  /\ pc = "call" /\ req \in GatewayRequests /\ outcome = NoOutcome
  /\ now = 0 /\ log = <<>> /\ callers = <<>> /\ locals = <<>>
  /\ session_state = <<>>

\* Lines 92-130: the model and the response text are drawn, the call sleeps
\* when latency is simulated, the tokens are counted.
Gateway_select ==
  /\ pc = "call"
  /\ req.fn = "get_mock_response"
  /\ \E u \in ChoiceDraws : \E v \in ChoiceDraws :
       locals' = gw_tokens(gw_response(gw_override(
                   gw_select(gw_query_type(ArgsOf(req)), u)), v))
  /\ IF "Latency Metrics" \in req.demo_modes
       THEN now' \in now..MaxNow
       ELSE now' = now
  /\ pc' = "limit"
  /\ UNCHANGED <<req, outcome, log, callers, session_state>>

\* Lines 132-144
Gateway_rate_limit ==
  /\ pc = "limit"
  /\ \E roll \in Rolls :
       /\ locals' = gw_rate_limit(locals, roll)
       /\ IF gw_rate_limit(locals, roll).rate_limited
            THEN outcome' = gw_rate_limited /\ pc' = "done"
            ELSE outcome' = outcome /\ pc' = "fallback"
  /\ UNCHANGED <<req, now, log, callers, session_state>>

\* Lines 146-158
Gateway_fallback ==
  /\ pc = "fallback"
  /\ \E roll \in Rolls : \E u \in ChoiceDraws :
       IF gw_unbound_category(gw_fallback_roll(locals, roll))
         THEN /\ locals' = gw_fallback_roll(locals, roll)
              /\ outcome' = gw_unbound_local
              /\ pc' = "done"
         ELSE /\ locals' = gw_fallback(gw_fallback_roll(locals, roll), u)
              /\ outcome' = outcome
              /\ pc' = "return"
  /\ UNCHANGED <<req, now, log, callers, session_state>>

\* Lines 160-174
Gateway_return ==
  /\ pc = "return"
  /\ \E request_number \in RequestNumbers :
       outcome' = gw_return(locals, now, request_number)
  /\ pc' = "done"
  /\ UNCHANGED <<req, now, log, callers, locals, session_state>>

NextGateway ==
  \/ Gateway_select
  \/ Gateway_rate_limit
  \/ Gateway_fallback
  \/ Gateway_return

SpecGateway == InitGateway /\ [][NextGateway]_vars

-----------------------------------------------------------------------------
(* fetch_stock_price.  The ticker symbol is a sequence of one-character     *)
(* strings, as the currency codes are.                                      *)

Digits == <<"0", "1", "2", "3", "4", "5", "6", "7", "8", "9">>

PositionIn(c, seq) == CHOOSE i \in 1..Len(seq) : seq[i] = c

\* ord(c), for the letters, the digits, "." and "-"
ord(c) ==
  IF InList(c, UpperLetters) THEN 64 + PositionIn(c, UpperLetters)
  ELSE IF InList(c, LowerLetters) THEN 96 + PositionIn(c, LowerLetters)
  ELSE IF InList(c, Digits) THEN 47 + PositionIn(c, Digits)
  ELSE CASE c = "." -> 46 [] c = "-" -> 45

\* sum(ord(c) for c in str)
RECURSIVE SumOrd(_)
SumOrd(str) == IF str = <<>> THEN 0 ELSE ord(Head(str)) + SumOrd(Tail(str))

LowerChar(c) ==
  IF InList(c, UpperLetters)
    THEN LowerLetters[PositionIn(c, UpperLetters)]
    ELSE c

IsLetter(c) == InList(c, UpperLetters) \/ InList(c, LowerLetters)

\* str.title(): a letter that follows no letter in upper case, the other
\* letters in lower case
title(str) ==
  [i \in 1..Len(str) |->
     IF i = 1 \/ ~IsLetter(str[i - 1])
       THEN UpperChar(str[i]) ELSE LowerChar(str[i])]

\* Line 257
stock_base(l) == l @@ [base_price |-> (SumOrd(l.ticker_symbol) % 300) + 50]

\* Lines 260-269; roll is what np.random.random() gives.  round() of the
\* int base_price is that int.
stock_mock_data(l, roll, clock) ==
  l @@ [mock_data |->
          [ticker          |-> upper(l.ticker_symbol),
           company_name    |->
             title(l.ticker_symbol) \o <<" ", "I", "n", "c", ".">>,
           current_price   |-> l.base_price,
           currency        |-> "USD",
           change_percent  |->
             round(DSub(DMul(roll, DOfInt(6)), DOfInt(3)), 2),
           market_cap      |->
             round(DDiv(DMul(DOfInt(l.base_price), DOfInt(10 ^ 9)),
                        DOfInt(100)), 2),
           timestamp       |-> [isoformat |-> clock],
           historical_data |-> <<>>],
        i |-> 1]

\* The date days_ago days before the instant clock, as "%Y-%m-%d"
DateBefore(clock, days_ago) == [date_of |-> clock, days_ago |-> days_ago]

\* Lines 273-283: one pass of the loop over range(1, data_points)
stock_history_pass(l, price_roll, volume_roll, clock) ==
  [l EXCEPT
     !.i = l.i + 1,
     !.mock_data.historical_data =
       Append(@,
         [date   |-> DateBefore(clock, l.i),
          price  |->
            round(DMul(DOfInt(l.base_price),
                       DAdd(DOfInt(1),
                            DSub(DMul(price_roll, DLit(1, 1)), DLit(5, 2)))),
                  2),
          volume |->
            UnitsOf(DMul(volume_roll, DOfInt(10000000)), 0) + 1000000])]

MaxDataPoints == 2

MaxFetches == 2

TickerSymbols ==
  { <<"A", "A", "P", "L">>, <<"a", "a", "p", "l">>, <<"M", "S", "F", "T">>,
    <<"b", "r", "k", ".", "b">> }

StockRequests ==
  [fn : {"fetch_stock_price"}, ticker_symbol : TickerSymbols,
   data_points : 0..MaxDataPoints]

\* Values np.random.random() may give
StockRolls == {DZero, DLit(999999, 6)}

InitStock ==
  /\ pc = "idle" /\ req = NoRequest /\ outcome = NoOutcome
  /\ now \in 0..MaxNow /\ log = <<>> /\ callers = <<>> /\ locals = <<>>
  /\ session_state = <<>>

\* The investment agent fetches a price.
Stock_submit ==
  /\ pc = "idle"
  /\ Len(log) < MaxFetches
  /\ req' \in StockRequests
  /\ pc' = "call"
  /\ UNCHANGED <<outcome, now, log, callers, locals, session_state>>

\* Lines 254-270
Stock_mock_data ==
  /\ pc = "call"
  /\ req.fn = "fetch_stock_price"
  /\ \E roll \in StockRolls :
       locals' = stock_mock_data(stock_base(ArgsOf(req)), roll, now)
  /\ pc' = "history"
  /\ UNCHANGED <<req, outcome, now, log, callers, session_state>>

\* Lines 273-283
Stock_history ==
  /\ pc = "history"
  /\ locals.i < locals.data_points
  /\ \E price_roll \in StockRolls : \E volume_roll \in StockRolls :
       locals' = stock_history_pass(locals, price_roll, volume_roll, now)
  /\ UNCHANGED <<pc, req, outcome, now, log, callers, session_state>>

\* Line 285
Stock_return ==
  /\ pc = "history"
  /\ ~(locals.i < locals.data_points)
  /\ outcome' = Return(locals.mock_data)
  /\ pc' = "done"
  /\ UNCHANGED <<req, now, log, callers, locals, session_state>>

\* The agent takes the result; the frame of the call is gone.
Stock_collect ==
  /\ pc = "done"
  /\ log' = Append(log, [req |-> req, outcome |-> outcome])
  /\ pc' = "idle"
  /\ req' = NoRequest
  /\ outcome' = NoOutcome
  /\ locals' = <<>>
  /\ UNCHANGED <<now, callers, session_state>>

NextStock ==
  \/ Stock_submit
  \/ Stock_mock_data
  \/ Stock_history
  \/ Stock_return
  \/ Stock_collect

SpecStock == InitStock /\ [][NextStock]_vars

-----------------------------------------------------------------------------
(* The dashboard, src/streamlit_app/app.py.  One run of the script serves   *)
(* one event of the session: a press of Clear Chat or a query in the text   *)
(* input.  The gateway is outside the program: what requests.post gives     *)
(* back is an input of the run.                                             *)

\* Lines 79-90: the session state a new session starts with.
InitialSessionState ==
  [messages        |-> <<>>,
   token_usage     |-> [input |-> 0, output |-> 0],
   request_history |-> <<>>,
   last_route      |-> NoStr]

\* Lines 161-166: the four assignments of the Clear Chat branch.
ClearChat(session) ==
  [session EXCEPT !.messages = <<>>,
                  !.token_usage = [input |-> 0, output |-> 0],
                  !.request_history = <<>>,
                  !.last_route = NoStr]

\* Lines 116-129
route_mapping(model_deployment) ==
  IF model_deployment = "Cloud APIs"
    THEN [t \in {"Investment Advice"} |-> "/v1/investment"]
         @@ [t \in {"Loan Calculator"} |-> "/v1/loan"]
         @@ [t \in {"Customer Service"} |-> "/v1/customer"]
         @@ [t \in {"General Query"} |-> "/v1/general"]
    ELSE [t \in {"Investment Advice"} |-> "/v1/investment-local"]
         @@ [t \in {"Loan Calculator"} |-> "/v1/loan-local"]
         @@ [t \in {"Customer Service"} |-> "/v1/customer-local"]
         @@ [t \in {"General Query"} |-> "/v1/general"]

\* dict.get(key, default)
Get(d, key, default) == IF key \in DOMAIN d THEN d[key] ELSE default

\* Lines 206-223: the user's message, the route and the payload.
dash_prepare(l) ==
  [l EXCEPT !.session =
     [@ EXCEPT !.messages =
                 Append(@, [role |-> "user", content |-> l.user_query]),
               !.last_route =
                 SomeStr(route_mapping(l.model_deployment)[l.query_type])]]
  @@ [current_route |-> route_mapping(l.model_deployment)[l.query_type],
      payload |->
        IF l.model_deployment = "Local (Ollama)"
          THEN [prompt |-> l.user_query, demo_modes |-> l.demo_modes,
                model |-> l.local_model]
          ELSE [prompt |-> l.user_query, demo_modes |-> l.demo_modes]]

\* Lines 227-237: requests.post raises or gives a response.
dash_post(l, http, latency) ==
  IF http.kind = "raise"
    THEN [l EXCEPT !.raised = SomeStr(http.message)]
    ELSE l @@ [response |-> http, latency |-> latency]

\* Line 240: response.json() raises on a body that is not JSON.
dash_json(l) ==
  IF l.raised # NoStr THEN l
  ELSE IF ~l.response.json.valid
    THEN [l EXCEPT !.raised =
            SomeStr("Expecting value: line 1 column 1 (char 0)")]
  ELSE l @@ [result |-> l.response.json.value]

\* Lines 243-245: the usage of the response is added to the totals.
dash_usage(l) ==
  IF l.raised # NoStr THEN l
  ELSE [l EXCEPT !.session.token_usage =
          [input  |-> @.input
                        + Get(Get(l.result, "usage",
                                  [input_tokens |-> 0, output_tokens |-> 0]),
                              "input_tokens", 0),
           output |-> @.output
                        + Get(Get(l.result, "usage",
                                  [input_tokens |-> 0, output_tokens |-> 0]),
                              "output_tokens", 0)]]
       @@ [token_usage |->
             Get(l.result, "usage", [input_tokens |-> 0, output_tokens |-> 0])]

\* Lines 248-253: result["response"] raises KeyError without that key.
dash_assistant(l) ==
  IF l.raised # NoStr THEN l
  ELSE IF "response" \notin DOMAIN l.result
    THEN [l EXCEPT !.raised = SomeStr("'response'")]
  ELSE [l EXCEPT !.session.messages =
          Append(@, [role    |-> "assistant",
                     content |-> l.result.response,
                     model   |-> Get(l.result, "model", "unknown")])]

Deployment(model_deployment) ==
  IF model_deployment = "Local (Ollama)" THEN "Local" ELSE "Cloud"

\* Lines 256-264
dash_history(l, clock) ==
  IF l.raised # NoStr THEN l
  ELSE [l EXCEPT !.session.request_history =
          Append(@, [timestamp     |-> [strftime |-> clock],
                     request_type  |-> l.query_type,
                     model         |-> Get(l.result, "model", "unknown"),
                     deployment    |-> Deployment(l.model_deployment),
                     latency       |-> round(l.latency, 2),
                     input_tokens  |-> Get(l.token_usage, "input_tokens", 0),
                     output_tokens |-> Get(l.token_usage, "output_tokens", 0)])]

\* Lines 240-264: the branch of a 200 response.
dash_ok(l, clock) ==
  dash_history(dash_assistant(dash_usage(dash_json(l))), clock)

\* Lines 267-279: the branch of any other status.
dash_error_status(l, clock) ==
  [l EXCEPT !.session =
     [@ EXCEPT !.messages =
                 Append(@, [role    |-> "assistant",
                            content |-> "Error: "
                                        \o ToString(l.response.status_code)
                                        \o " - " \o l.response.text]),
               !.request_history =
                 Append(@, [timestamp     |-> [strftime |-> clock],
                            request_type  |-> l.query_type,
                            model         |-> "error",
                            deployment    |-> Deployment(l.model_deployment),
                            latency       |-> round(l.latency, 2),
                            input_tokens  |-> 0,
                            output_tokens |-> 0])]]

\* Lines 239-279
dash_respond(l, clock) ==
  IF l.raised # NoStr THEN l
  ELSE IF l.response.status_code = 200 THEN dash_ok(l, clock)
  ELSE dash_error_status(l, clock)

\* Lines 281-283: except Exception as e
dash_except(l) ==
  IF l.raised = NoStr THEN l
  ELSE [l EXCEPT !.session.messages =
          Append(@, [role    |-> "assistant",
                     content |-> "Connection error: " \o l.raised[1]])]

\* Lines 204-286: the run of the script on a query, from the session state
\* it finds to the one it leaves.
submit_query(session, model_deployment, query_type, local_model, user_query, demo_modes, http, latency, clock) ==
  dash_except(dash_respond(dash_post(dash_prepare(
    [session          |-> session,
     raised           |-> NoStr,
     model_deployment |-> model_deployment,
     query_type       |-> query_type,
     local_model      |-> local_model,
     user_query       |-> user_query,
     demo_modes       |-> demo_modes]), http, latency), clock)).session

-----------------------------------------------------------------------------
(* Inputs of the dashboard.                                                 *)

MaxQueries == 2

ModelDeployments == {"Cloud APIs", "Local (Ollama)"}

QueryTypes == {"Investment Advice", "General Query"}

\* What requests.post gives back
PostRaises(message) == [kind |-> "raise", message |-> message]

Response(status_code, text, json) ==
  [kind |-> "response", status_code |-> status_code, text |-> text,
   json |-> json]

NotJson == [valid |-> FALSE]

Json(value) == [valid |-> TRUE, value |-> value]

\* Bodies of a 200 response: the two payloads get_mock_response builds
\* (lines 140-144 and 161-174 of mock_gateway_api.py, the fields the
\* dashboard reads), bodies that leave fields out, a body that carries the
\* text as content with its usage, and a body that is not JSON.
GatewayBodies ==
  { Json([response |-> "Index funds are cost-effective.",
          model |-> "gpt-4-1106-preview",
          usage |-> [input_tokens |-> 3, output_tokens |-> 7,
                     total_tokens |-> 10]]),
    Json([error |-> "rate_limit_exceeded",
          message |-> "You have exceeded your rate limit. Please try again later.",
          retry_after |-> 30]),
    Json([response |-> "Compound interest is interest on interest."]),
    Json([response |-> "ok", model |-> "llama3-8b",
          usage |-> [input_tokens |-> 2]]),
    Json([model |-> "claude-3-opus-20240229",
          content |-> "Index funds are cost-effective.",
          usage |-> [input_tokens |-> 5, output_tokens |-> 11]]),
    NotJson }

HttpOutcomes ==
  {PostRaises("Connection refused")}
  \cup {Response(200, "", body) : body \in GatewayBodies}
  \cup {Response(429, "Too Many Requests", NotJson),
        Response(500, "Internal Server Error", NotJson)}

Latencies == {DLit(1234, 3)}

InitDashboard ==
  /\ pc = "idle" /\ req = NoRequest /\ outcome = NoOutcome
  /\ now \in 0..MaxNow /\ log = <<>> /\ callers = <<>> /\ locals = <<>>
  /\ session_state = InitialSessionState

\* A run of the script with Clear Chat pressed, lines 161-166; the rerun of
\* line 166 ends the run there.  req holds the event the last run served.
Dashboard_clear_chat ==
  /\ req' = [fn |-> "clear_chat"]
  /\ session_state' = ClearChat(session_state)
  /\ UNCHANGED <<pc, outcome, now, log, callers, locals>>

\* A run of the script with a query in the text input, lines 204-286.
Dashboard_submit_query ==
  /\ Len(session_state.messages) < 2 * MaxQueries
  /\ \E model_deployment \in ModelDeployments, query_type \in QueryTypes,
        http \in HttpOutcomes, latency \in Latencies :
       /\ req' = [fn |-> "submit_query", model_deployment |-> model_deployment,
                  query_type |-> query_type, http |-> http]
       /\ session_state' =
            submit_query(session_state, model_deployment, query_type,
                         "llama3-8b", "How should I invest?",
                         {"Token Usage", "Latency Metrics"}, http, latency,
                         now)
  /\ UNCHANGED <<pc, outcome, now, log, callers, locals>>

NextDashboard == Dashboard_clear_chat \/ Dashboard_submit_query

SpecDashboard == InitDashboard /\ [][NextDashboard]_vars

-----------------------------------------------------------------------------
(* Vocabulary of the claims.                                                *)

Done(fn) == pc = "done" /\ req.fn = fn

Returned == outcome.kind = "return"

HalfCent == DLit(5, 3)

OneCent == DLit(1, 2)

\* a and b spell the same code, letter case aside
SameLetters(a, b) ==
  /\ Len(a) = Len(b)
  /\ \A i \in 1..Len(a) :
       \/ a[i] = b[i]
       \/ \E k \in 1..Len(LowerLetters) :
            {a[i], b[i]} = {LowerLetters[k], UpperLetters[k]}

\* The ten codes of the rate table
TableCodes ==
  { <<"U", "S", "D">>, <<"E", "U", "R">>, <<"G", "B", "P">>,
    <<"J", "P", "Y">>, <<"C", "A", "D">>, <<"A", "U", "D">>,
    <<"C", "H", "F">>, <<"C", "N", "Y">>, <<"I", "N", "R">>,
    <<"M", "X", "N">> }

InTable(code) == \E k \in TableCodes : SameLetters(code, k)

TableKey(code) == CHOOSE k \in TableCodes : SameLetters(code, k)

\* sub occurs in seq as a run of consecutive elements
Occurs(sub, seq) ==
  \E i \in 0..(Len(seq) - Len(sub)) :
    \A j \in 1..Len(sub) : seq[i + j] = sub[j]

-----------------------------------------------------------------------------
(* C1: a payment_frequency outside {monthly, biweekly, weekly} makes        *)
(* calculate_loan_payment raise ValueError, and a compound_frequency        *)
(* outside {monthly, quarterly, annually} makes                             *)
(* calculate_investment_returns raise ValueError; nothing is returned then. *)
(* A recognized value is never rejected that way.                           *)
C1_UnrecognizedFrequencyRejected ==
  /\ Done("calculate_loan_payment") =>
       IF req.payment_frequency \in {"monthly", "biweekly", "weekly"}
         THEN ~(outcome.kind = "raise" /\ outcome.exc = "ValueError")
         ELSE /\ outcome.kind = "raise"
              /\ outcome.exc = "ValueError"
              /\ outcome.message # ""
              /\ outcome.value = NoValue
  /\ Done("calculate_investment_returns") =>
       IF req.compound_frequency \in {"monthly", "quarterly", "annually"}
         THEN ~(outcome.kind = "raise" /\ outcome.exc = "ValueError")
         ELSE /\ outcome.kind = "raise"
              /\ outcome.exc = "ValueError"
              /\ outcome.message # ""
              /\ outcome.value = NoValue

C1_Witness ==
  /\ Done("calculate_loan_payment")
  /\ req.payment_frequency = "daily"
  /\ outcome.kind = "raise"
  /\ outcome.exc = "ValueError"

(* C2: get_exchange_rate never raises.  When the source or the target code, *)
(* upper-cased, is not one of the ten table codes, it returns exactly an     *)
(* error flag and a message that lists the ten codes (no exchange_rate, no   *)
(* converted_amount); when both are table codes it returns a conversion      *)
(* result and no error flag.                                                 *)
C2_UnsupportedCurrencySoftError ==
  Done("get_exchange_rate") =>
    /\ Returned
    /\ IF InTable(req.from_currency) /\ InTable(req.to_currency)
         THEN /\ "error" \notin DOMAIN outcome.value
              /\ {"exchange_rate", "converted_amount"}
                   \subseteq DOMAIN outcome.value
         ELSE /\ DOMAIN outcome.value = {"error", "message"}
              /\ outcome.value.error = TRUE
              /\ \A k \in TableCodes : Occurs(k, outcome.value.message.codes)

C2_Witness ==
  /\ Done("get_exchange_rate")
  /\ req.from_currency = <<"u", "s", "d">>
  /\ req.to_currency = <<"X", "Y", "Z">>
  /\ Returned
  /\ outcome.value.error = TRUE

(* C3: at a zero annual rate, for a recognized frequency,                   *)
(* calculate_loan_payment returns (no division by zero) payment_amount =    *)
(* principal / total_payments in cents and total_interest = 0.00; 12000     *)
(* over one year monthly gives exactly 1000.00.                             *)
C3_ZeroRateLoan ==
  ( /\ Done("calculate_loan_payment")
    /\ req.annual_interest_rate = DZero
    /\ req.payment_frequency \in {"monthly", "biweekly", "weekly"} ) =>
    /\ Returned
    /\ outcome.value.payment_amount =
         round(DDiv(req.principal, DOfInt(outcome.value.total_payments)), 2)
    /\ outcome.value.total_interest = DZero
    /\ ( /\ req.principal = DOfInt(12000)
         /\ req.loan_term_years = 1
         /\ req.payment_frequency = "monthly" ) =>
         outcome.value.payment_amount = DOfInt(1000)

C3_Witness ==
  /\ Done("calculate_loan_payment")
  /\ req.annual_interest_rate = DZero
  /\ req.principal = DOfInt(12000)
  /\ req.loan_term_years = 1
  /\ req.payment_frequency = "monthly"
  /\ Returned
  /\ Cents(outcome.value.payment_amount) = 100000

-----------------------------------------------------------------------------
(* The loan of the request, as the calculator derives it.                   *)

ReqPeriodsPerYear ==
  IF req.payment_frequency = "monthly" THEN 12
  ELSE IF req.payment_frequency = "biweekly" THEN 26
  ELSE 52

ReqPeriods == req.loan_term_years * ReqPeriodsPerYear

ReqPeriodicRate ==
  DDiv(DDiv(req.annual_interest_rate, DOfInt(100)), DOfInt(ReqPeriodsPerYear))

\* The payment before it is rounded for the report
ReqPayment == DNeg(pmt(ReqPeriodicRate, ReqPeriods, req.principal))

\* TLC evaluates an operator's arguments when they are first used; this is
\* e with v evaluated first, so that a long iteration does not nest.
Strict(v, e) == IF v = v THEN e ELSE e

\* The balance after k more passes of the amortization step
RECURSIVE BalanceAfter(_, _, _, _)
BalanceAfter(balance, k, periodic_rate, payment) ==
  Strict(balance,
    IF k = 0 THEN balance
    ELSE IF k = 1
      THEN AmortizationStep(balance, periodic_rate, payment).balance
    ELSE BalanceAfter(BalanceAfter(balance, k \div 2, periodic_rate, payment),
                      k - (k \div 2), periodic_rate, payment))

FullyAmortized ==
  Bind(ReqPayment, LAMBDA payment :
    round(BalanceAfter(req.principal, ReqPeriods, ReqPeriodicRate, payment),
          2) = DZero)

LoanReturned ==
  /\ Done("calculate_loan_payment")
  /\ req.payment_frequency \in {"monthly", "biweekly", "weekly"}
  /\ Returned

\* |total_interest + principal - payment * total_payments| for a payment
TotalsGap(payment) ==
  DAbs(DSub(DAdd(outcome.value.total_interest, req.principal),
            DMul(payment, DOfInt(outcome.value.total_payments))))

(* C4, as amended: for every frequency, the amortization step run over all  *)
(* total_payments periods brings the balance to 0.00 (the principal         *)
(* portions sum to the principal); total_interest + principal equals the    *)
(* unrounded payment x total_payments within half a cent, and the reported  *)
(* payment_amount x total_payments within half a cent per payment plus      *)
(* half a cent.                                                             *)
C4_AmortizationTotals ==
  LoanReturned =>
    /\ FullyAmortized
    /\ DCmp(TotalsGap(ReqPayment), HalfCent) <= 0
    /\ DCmp(TotalsGap(outcome.value.payment_amount),
            DMul(HalfCent, DOfInt(outcome.value.total_payments + 1))) <= 0

(* C4, as stated: the balance reaches 0.00 and total_interest + principal   *)
(* equals the reported payment_amount x total_payments to the cent.         *)
C4_TotalsMatchReportedPayment ==
  LoanReturned =>
    /\ FullyAmortized
    /\ DCmp(TotalsGap(outcome.value.payment_amount), OneCent) <= 0

C4_Witness ==
  /\ LoanReturned
  /\ req.payment_frequency = "weekly"
  /\ req.annual_interest_rate # DZero
  /\ FullyAmortized
  /\ DCmp(TotalsGap(outcome.value.payment_amount), OneCent) > 0

-----------------------------------------------------------------------------
ReqDownPercent == DMul(DDiv(req.down_payment, req.home_price), DOfInt(100))

ReqLoanAmount == DSub(req.home_price, req.down_payment)

\* 0.5 + (20 - d) x 0.025
LinearPmiRate(d) ==
  DAdd(DLit(5, 1), DMul(DSub(DOfInt(20), d), DLit(25, 3)))

MortgageReturned ==
  /\ Done("calculate_mortgage_payment")
  /\ req.home_price # DZero
  /\ Returned

(* C5: monthly_pmi is 0 when include_pmi is false or the down-payment       *)
(* percent d is >= 20 (also at exactly 20).  With include_pmi and d < 20    *)
(* the annual PMI rate is 0.5 + (20 - d) x 0.025 percent, 0.525 at d = 19,  *)
(* monthly_pmi is loan_amount x rate / 100 / 12 in cents, and a smaller d   *)
(* gives a strictly larger rate.                                            *)
C5_PmiBelowTwentyPercent ==
  MortgageReturned =>
    IF req.include_pmi /\ DCmp(ReqDownPercent, DOfInt(20)) < 0
      THEN /\ PmiRate(ReqDownPercent) = LinearPmiRate(ReqDownPercent)
           /\ outcome.value.monthly_pmi =
                round(DDiv(DDiv(DMul(ReqLoanAmount,
                                     LinearPmiRate(ReqDownPercent)),
                                DOfInt(100)), DOfInt(12)), 2)
           /\ ReqDownPercent = DOfInt(19) =>
                PmiRate(ReqDownPercent) = DLit(525, 3)
           /\ \A down \in DownPayments :
                LET d2 == DMul(DDiv(down, req.home_price), DOfInt(100))
                IN  ( /\ DCmp(ReqDownPercent, d2) < 0
                      /\ DCmp(d2, DOfInt(20)) < 0 ) =>
                      DCmp(PmiRate(ReqDownPercent), PmiRate(d2)) > 0
      ELSE outcome.value.monthly_pmi = DZero

C5_Witness ==
  /\ MortgageReturned
  /\ req.include_pmi
  /\ req.home_price = DOfInt(100000)
  /\ req.down_payment = DOfInt(19000)
  /\ Cents(outcome.value.monthly_pmi) = 3544

(* C6: at a zero annual return rate, for a recognized compounding           *)
(* frequency, calculate_investment_returns returns (no division by zero)    *)
(* total_future_value = total_contributions = initial + monthly x 12 x      *)
(* years and total_earnings = 0.00.                                         *)
C6_ZeroRateInvestment ==
  ( /\ Done("calculate_investment_returns")
    /\ req.annual_return_rate = DZero
    /\ req.compound_frequency \in {"monthly", "quarterly", "annually"} ) =>
    /\ Returned
    /\ outcome.value.total_contributions =
         round(DAdd(req.initial_investment,
                    DMul(req.monthly_contribution,
                         DOfInt(12 * req.investment_period_years))), 2)
    /\ outcome.value.total_future_value = outcome.value.total_contributions
    /\ outcome.value.total_earnings = DZero

C6_Witness ==
  /\ Done("calculate_investment_returns")
  /\ req.annual_return_rate = DZero
  /\ req.compound_frequency = "quarterly"
  /\ req.monthly_contribution # DZero
  /\ req.investment_period_years = 5
  /\ Returned
  /\ outcome.value.total_earnings = DZero
  /\ outcome.value.total_future_value # DZero

(* C7: for two table codes in any letter case the reported exchange_rate is *)
(* table[target] / table[source] to 6 decimals and converted_amount is      *)
(* amount x table[target] / table[source] in cents; for the same code the   *)
(* rate is exactly 1.0 and converted_amount is the amount in cents.         *)
C7_ConversionRate ==
  ( /\ Done("get_exchange_rate")
    /\ InTable(req.from_currency)
    /\ InTable(req.to_currency) ) =>
    LET source == Lookup(mock_rates, TableKey(req.from_currency))
        target == Lookup(mock_rates, TableKey(req.to_currency))
        rate   == DDiv(target, source)
    IN  /\ Returned
        /\ outcome.value.exchange_rate = round(rate, 6)
        /\ outcome.value.converted_amount = round(DMul(req.amount, rate), 2)
        /\ SameLetters(req.from_currency, req.to_currency) =>
             /\ outcome.value.exchange_rate = DOfInt(1)
             /\ outcome.value.converted_amount = round(req.amount, 2)

C7_Witness ==
  /\ Done("get_exchange_rate")
  /\ req.from_currency = <<"E", "u", "r">>
  /\ req.to_currency = <<"u", "s", "d">>
  /\ req.amount = DOfInt(1000000)
  /\ Returned
  /\ UnitsOf(outcome.value.exchange_rate, 6) = 1075269
  /\ Cents(outcome.value.converted_amount) = 107526882

(* C10: with down_payment >= home_price (home_price > 0)                    *)
(* calculate_mortgage_payment raises nothing and reports loan_amount =      *)
(* home_price - down_payment, zero or negative, unclamped, with             *)
(* monthly_pmi = 0.                                                         *)
C10_NonPositiveLoanPassedThrough ==
  ( /\ Done("calculate_mortgage_payment")
    /\ DCmp(req.home_price, DZero) > 0
    /\ DCmp(req.down_payment, req.home_price) >= 0 ) =>
    /\ Returned
    /\ outcome.value.loan_amount = round(ReqLoanAmount, 2)
    /\ DCmp(outcome.value.loan_amount, DZero) <= 0
    /\ outcome.value.monthly_pmi = DZero

C10_Witness ==
  /\ Done("calculate_mortgage_payment")
  /\ req.home_price = DOfInt(300000)
  /\ req.down_payment = DOfInt(350000)
  /\ Returned
  /\ Cents(outcome.value.loan_amount) = -5000000

-----------------------------------------------------------------------------
\* o without the timestamp field of its value
WithoutTimestamps(o) ==
  IF o.kind = "return" /\ "timestamp" \in DOMAIN o.value
    THEN [o EXCEPT !.value =
            [f \in DOMAIN o.value \ {"timestamp"} |-> o.value[f]]]
    ELSE o

-----------------------------------------------------------------------------
\* What the call r gives back when it runs alone and the clock reads clock.
RunAlone(r, clock) ==
  IF r.fn = "calculate_loan_payment"
    THEN calculate_loan_payment(r.principal, r.annual_interest_rate,
                                r.loan_term_years, r.payment_frequency)
  ELSE IF r.fn = "calculate_mortgage_payment"
    THEN calculate_mortgage_payment(
           r.home_price, r.down_payment, r.annual_interest_rate,
           r.loan_term_years, r.property_tax_rate, r.annual_insurance,
           r.include_pmi)
  ELSE IF r.fn = "calculate_investment_returns"
    THEN calculate_investment_returns(
           r.initial_investment, r.monthly_contribution, r.annual_return_rate,
           r.investment_period_years, r.compound_frequency, r.tax_rate)
  ELSE get_exchange_rate(r.from_currency, r.to_currency, r.amount, clock)

C9_Step ==
  \A c \in DOMAIN callers :
    /\ callers[c].pc # "done" /\ callers'[c].pc = "done"
         => callers'[c].outcome = RunAlone(callers[c].req, now)
    /\ "mock_rates" \in DOMAIN callers'[c].frame
         => callers'[c].frame.mock_rates = mock_rates

\* C9: however the statements of calls in flight at the same time
\* interleave, a call that finishes gives back what it gives back when it
\* runs alone, and the rate table a call holds is always the table of the
\* source text.
C9_ConcurrentCallsIsolated == [][C9_Step]_vars

\* Two calls whose statements interleaved have both finished: a loan
\* payment, which returned its three-row preview while the other call was
\* under way, and a conversion.
C9_Witness ==
  \E c \in DOMAIN callers : \E d \in DOMAIN callers :
    /\ callers[c].pc = "done" /\ callers[d].pc = "done"
    /\ callers[c].overlapped
    /\ callers[c].req.fn = "calculate_loan_payment"
    /\ Len(callers[c].outcome.value.amortization_preview) = 3
    /\ callers[d].req.fn = "get_exchange_rate"
    /\ "timestamp" \in DOMAIN callers[d].outcome.value

-----------------------------------------------------------------------------
\* The locals of the calculate_investment_returns call under way, as they
\* stand at its return statement (before any rounding).
InvestLocals ==
  invest_after_tax_value(invest_after_tax(invest_earnings(invest_total(
    invest_values(invest_periods(ArgsOf(req)))))))

InvestmentReturned == Done("calculate_investment_returns") /\ Returned

\* 1 - t/100 for a tax rate t
KeptShare(t) == DSub(DOfInt(1), DDiv(t, DOfInt(100)))

Within(a, b, tolerance) == DCmp(DAbs(DSub(a, b)), tolerance) <= 0

(* C11: after_tax_earnings and after_tax_future_value are both None exactly *)
(* when no tax_rate was given; with a tax_rate t (0 included)               *)
(* after_tax_earnings is total_earnings x (1 - t/100) and                   *)
(* after_tax_future_value is total_contributions + after_tax_earnings, in   *)
(* cents of the unrounded amounts, hence within a cent of the same          *)
(* expressions over the reported fields; total_future_value,                *)
(* total_contributions and total_earnings are those of the same call        *)
(* without a tax rate.                                                      *)
C11_AfterTaxFields ==
  InvestmentReturned =>
    LET v == outcome.value
        untaxed == calculate_investment_returns(
                     req.initial_investment, req.monthly_contribution,
                     req.annual_return_rate, req.investment_period_years,
                     req.compound_frequency, None).value
    IN  /\ (v.after_tax_earnings = None) <=> (req.tax_rate = None)
        /\ (v.after_tax_future_value = None) <=> (req.tax_rate = None)
        /\ v.total_future_value = untaxed.total_future_value
        /\ v.total_contributions = untaxed.total_contributions
        /\ v.total_earnings = untaxed.total_earnings
        /\ req.tax_rate # None =>
             LET kept == DMul(InvestLocals.total_earnings,
                              KeptShare(req.tax_rate))
             IN  /\ v.after_tax_earnings = round(kept, 2)
                 /\ v.after_tax_future_value =
                      round(DAdd(InvestLocals.total_contributions, kept), 2)
                 /\ Within(v.after_tax_earnings,
                           DMul(v.total_earnings, KeptShare(req.tax_rate)),
                           OneCent)
                 /\ Within(v.after_tax_future_value,
                           DAdd(v.total_contributions, v.after_tax_earnings),
                           OneCent)

\* A taxed call with earnings, and a call with a tax rate of 0.
C11_Witness ==
  /\ InvestmentReturned
  /\ req.tax_rate = DOfInt(15)
  /\ req.investment_period_years = 5
  /\ DCmp(outcome.value.total_earnings, DOfInt(100)) > 0
  /\ DCmp(outcome.value.after_tax_earnings, outcome.value.total_earnings) < 0
  /\ DCmp(outcome.value.after_tax_future_value,
          outcome.value.total_future_value) < 0

(* C12: for a horizon of exactly 5 years, every recognized compounding     *)
(* frequency and every annual return rate, the end_value of year 5 of the   *)
(* period-by-period walk is within a cent of the closed-form                *)
(* total_future_value.                                                      *)
C12_WalkMatchesClosedForm ==
  ( /\ InvestmentReturned
    /\ req.investment_period_years = 5 ) =>
    /\ Len(outcome.value.yearly_summary) = 5
    /\ Within(outcome.value.yearly_summary[5].end_value,
              outcome.value.total_future_value, OneCent)

-----------------------------------------------------------------------------
RateLimitPayload ==
  /\ Returned
  /\ DOMAIN outcome.value = {"error", "message", "retry_after"}
  /\ outcome.value.error = "rate_limit_exceeded"

NormalResponse ==
  /\ Returned
  /\ {"response", "model", "usage"} \subseteq DOMAIN outcome.value
  /\ "error" \notin DOMAIN outcome.value

(* C13: for every route, every set of demo modes and every custom model     *)
(* get_mock_response raises nothing and returns either the                  *)
(* rate_limit_exceeded payload or a response with its text, a model         *)
(* identifier and token counts where total_tokens = input_tokens +          *)
(* output_tokens.                                                           *)
C13_MockResponseAlwaysReturned ==
  Done("get_mock_response") =>
    \/ RateLimitPayload
    \/ /\ NormalResponse
       /\ outcome.value.response \in
            {INVESTMENT_RESPONSES[i] : i \in 1..4}
              \cup {LOAN_RESPONSES[i] : i \in 1..4}
              \cup {CUSTOMER_SERVICE_RESPONSES[i] : i \in 1..4}
              \cup {GENERAL_RESPONSES[i] : i \in 1..4}
       /\ outcome.value.model # ""
       /\ outcome.value.usage.total_tokens =
            outcome.value.usage.input_tokens
              + outcome.value.usage.output_tokens

-----------------------------------------------------------------------------
\* The unrounded balance after k payments, from the principal: each payment
\* first pays the interest on the balance, the rest reduces the balance.
RECURSIVE RunningBalanceFrom(_, _, _, _)
RunningBalanceFrom(balance, k, periodic_rate, payment) ==
  Strict(balance,
    IF k = 0 THEN balance
    ELSE RunningBalanceFrom(
           DSub(balance, DSub(payment, DMul(balance, periodic_rate))),
           k - 1, periodic_rate, payment))

RunningBalance(k) ==
  Bind(ReqPayment, LAMBDA payment :
    RunningBalanceFrom(req.principal, k, ReqPeriodicRate, payment))

\* The principal portions of the first k preview entries, summed
RECURSIVE PrincipalPortions(_)
PrincipalPortions(k) ==
  IF k = 0 THEN DZero
  ELSE DAdd(PrincipalPortions(k - 1),
            outcome.value.amortization_preview[k].principal)

(* C14: the amortization preview has min(3, total_payments) entries with    *)
(* period 1, 2, 3 in order; entry k reports, in cents, interest = balance x *)
(* periodic rate on the unrounded balance after k - 1 payments (the         *)
(* principal at first), principal = payment - interest and the balance      *)
(* less that principal portion; the reported balance of entry k is the      *)
(* principal minus the reported principal portions of entries 1..k within   *)
(* half a cent per rounded amount, and every entry shows the reported       *)
(* payment_amount.                                                          *)
C14_AmortizationPreview ==
  LoanReturned =>
    LET preview == outcome.value.amortization_preview
    IN  /\ Len(preview) = Min(3, outcome.value.total_payments)
        /\ \A k \in 1..Len(preview) :
             /\ preview[k].period = k
             /\ preview[k].payment = outcome.value.payment_amount
             /\ preview[k].interest =
                  round(DMul(RunningBalance(k - 1), ReqPeriodicRate), 2)
             /\ preview[k].principal =
                  round(DSub(ReqPayment,
                             DMul(RunningBalance(k - 1), ReqPeriodicRate)), 2)
             /\ preview[k].balance = round(RunningBalance(k), 2)
             /\ Within(preview[k].balance,
                       DSub(req.principal, PrincipalPortions(k)),
                       DMul(HalfCent, DOfInt(k + 1)))

\* A loan at interest whose three entries show the balance going down.
C14_Witness ==
  /\ LoanReturned
  /\ req.payment_frequency = "biweekly"
  /\ DCmp(req.annual_interest_rate, DZero) > 0
  /\ DCmp(req.principal, DZero) > 0
  /\ Len(outcome.value.amortization_preview) = 3
  /\ DCmp(outcome.value.amortization_preview[1].interest, DZero) > 0
  /\ DCmp(outcome.value.amortization_preview[3].balance,
          outcome.value.amortization_preview[2].balance) < 0
  /\ DCmp(outcome.value.amortization_preview[2].interest,
          outcome.value.amortization_preview[1].interest) < 0

(* C15: calculate_loan_payment reports total_payments = loan_term_years x  *)
(* periods-per-year, 12 for monthly, 26 for biweekly and 52 for weekly,     *)
(* computes with the periodic rate annual rate / 100 / periods-per-year     *)
(* (the payment and the first period's interest are those of that rate),    *)
(* and gives back the payment_frequency it was given.                       *)
C15_PeriodsAndPeriodicRate ==
  LoanReturned =>
    /\ outcome.value.total_payments =
         req.loan_term_years
           * (CASE req.payment_frequency = "monthly" -> 12
                [] req.payment_frequency = "biweekly" -> 26
                [] req.payment_frequency = "weekly" -> 52)
    /\ outcome.value.payment_frequency = req.payment_frequency
    /\ outcome.value.payment_amount =
         round(DNeg(pmt(ReqPeriodicRate, ReqPeriods, req.principal)), 2)
    /\ outcome.value.amortization_preview[1].interest =
         round(DMul(req.principal, ReqPeriodicRate), 2)

C15_Witness ==
  /\ LoanReturned
  /\ req.payment_frequency = "biweekly"
  /\ req.loan_term_years = 2
  /\ req.principal = DOfInt(250000)
  /\ req.annual_interest_rate = DLit(550, 2)
  /\ outcome.value.total_payments = 52
  /\ Cents(outcome.value.amortization_preview[1].interest) = 52885

-----------------------------------------------------------------------------
\* The four reported components of the monthly payment, summed
ReportedComponents ==
  DAdd(DAdd(DAdd(outcome.value.monthly_principal_interest,
                 outcome.value.monthly_property_tax),
            outcome.value.monthly_insurance),
       outcome.value.monthly_pmi)

\* The reported total monthly payment over all the payments of the term
ReportedTotalOverTerm ==
  DMul(outcome.value.total_monthly_payment, DOfInt(req.loan_term_years * 12))

(* C16, as amended: the reported total_monthly_payment is within 2 cents of *)
(* the sum of the four reported components (each is rounded on its own),    *)
(* and the reported total_payment_over_term is within half a cent per       *)
(* payment plus half a cent of the reported total_monthly_payment x         *)
(* (loan_term_years x 12).                                                  *)
C16_TotalsWithinRounding ==
  MortgageReturned =>
    /\ Within(outcome.value.total_monthly_payment, ReportedComponents,
              DLit(2, 2))
    /\ Within(outcome.value.total_payment_over_term, ReportedTotalOverTerm,
              DMul(HalfCent, DOfInt(req.loan_term_years * 12 + 1)))

(* C16, as stated: the reported total_monthly_payment equals the sum of the *)
(* four reported component fields and the reported total_payment_over_term  *)
(* equals the reported total_monthly_payment x number of payments.          *)
C16_ReportedTotalsAddUp ==
  MortgageReturned =>
    /\ outcome.value.total_monthly_payment = ReportedComponents
    /\ outcome.value.total_payment_over_term = ReportedTotalOverTerm

\* A mortgage with all four components, PMI among them.
C16_Witness ==
  /\ MortgageReturned
  /\ req.include_pmi
  /\ DCmp(outcome.value.monthly_pmi, DZero) > 0
  /\ DCmp(outcome.value.monthly_principal_interest, DZero) > 0
  /\ DCmp(outcome.value.monthly_property_tax, DZero) > 0
  /\ DCmp(outcome.value.monthly_insurance, DZero) > 0
  /\ outcome.value.total_payment_over_term # ReportedTotalOverTerm

-----------------------------------------------------------------------------
(* C17: yearly_summary has min(5, investment_period_years) entries with     *)
(* year 1, 2, ... in order; the first start_value is the initial            *)
(* investment, every later start_value is the end_value of the entry        *)
(* before, contributions is monthly_contribution x 12 whatever the          *)
(* compounding frequency, and growth is the rounding of end - start -       *)
(* contributions before rounding, hence within 2 cents of the same          *)
(* difference of the reported fields.                                       *)
C17_YearlySummary ==
  InvestmentReturned =>
    LET summary == outcome.value.yearly_summary
    IN  /\ Len(summary) = Min(5, req.investment_period_years)
        /\ summary[1].start_value = round(req.initial_investment, 2)
        /\ \A k \in 1..Len(summary) :
             /\ summary[k].year = k
             /\ k > 1 => summary[k].start_value = summary[k - 1].end_value
             /\ summary[k].contributions =
                  round(DMul(req.monthly_contribution, DOfInt(12)), 2)
             /\ Within(summary[k].growth,
                       DSub(DSub(summary[k].end_value, summary[k].start_value),
                            summary[k].contributions),
                       DLit(2, 2))

\* Six years compounded quarterly with contributions: five entries, each
\* starting where the one before ended.
C17_Witness ==
  /\ InvestmentReturned
  /\ req.investment_period_years = 6
  /\ req.compound_frequency = "quarterly"
  /\ req.monthly_contribution = DLit(10050, 2)
  /\ DCmp(req.annual_return_rate, DZero) > 0
  /\ Len(outcome.value.yearly_summary) = 5
  /\ outcome.value.yearly_summary[5].year = 5
  /\ Cents(outcome.value.yearly_summary[3].contributions) = 120600
  /\ DCmp(outcome.value.yearly_summary[5].start_value,
          outcome.value.yearly_summary[4].start_value) > 0

-----------------------------------------------------------------------------
\* Entry k of the log is a price fetch that returned its mock data.
Fetched(k) ==
  /\ log[k].req.fn = "fetch_stock_price"
  /\ log[k].outcome.kind = "return"
  /\ "current_price" \in DOMAIN log[k].outcome.value

(* C18: fetch_stock_price reports current_price = (sum of the character     *)
(* codes of the ticker) mod 300 + 50, an integer in 50..349, and            *)
(* market_cap = current_price x 10^7; two calls whose results report the    *)
(* same ticker report the same current_price and market_cap, whatever the   *)
(* random draws and data_points.                                            *)
C18_PriceDeterminedByTicker ==
  /\ \A k \in 1..Len(log) :
       Fetched(k) =>
         /\ log[k].outcome.value.current_price =
              (SumOrd(log[k].req.ticker_symbol) % 300) + 50
         /\ log[k].outcome.value.current_price \in 50..349
         /\ log[k].outcome.value.market_cap =
              DMul(DOfInt(log[k].outcome.value.current_price),
                   DOfInt(10000000))
  /\ \A j \in 1..Len(log) : \A k \in 1..Len(log) :
       ( /\ Fetched(j) /\ Fetched(k)
         /\ log[j].outcome.value.ticker = log[k].outcome.value.ticker ) =>
         /\ log[j].outcome.value.current_price =
              log[k].outcome.value.current_price
         /\ log[j].outcome.value.market_cap = log[k].outcome.value.market_cap

-----------------------------------------------------------------------------
GatewayResponded == Done("get_mock_response") /\ NormalResponse

(* C19: in every non-error result of get_mock_response, used_fallback =     *)
(* true implies that the reported model differs from original_model, which  *)
(* is the model first selected; used_fallback = false implies that          *)
(* original_model is None and the reported model is the model first         *)
(* selected (the custom Ollama model when one was given and recognized);    *)
(* used_fallback is true only with 'Model Fallback' among the demo modes.   *)
C19_FallbackReportsAnotherModel ==
  GatewayResponded =>
    /\ outcome.value.used_fallback =>
         /\ outcome.value.original_model = SomeStr(locals.original_model)
         /\ outcome.value.model # locals.original_model
         /\ "Model Fallback" \in req.demo_modes
    /\ ~outcome.value.used_fallback =>
         /\ outcome.value.original_model = NoStr
         /\ outcome.value.model = locals.original_model
    /\ CustomModelRecognized(req.custom_model) =>
         locals.original_model = req.custom_model[1]

(* C20: get_mock_response returns the rate_limit_exceeded payload, with    *)
(* retry_after = 30, only when 'Rate Limiting' is among the demo modes; the *)
(* rate-limit decision comes before the fallback decision, so a             *)
(* rate-limited call never draws a fallback and its result has no           *)
(* response, model, used_fallback or usage field; without 'Rate Limiting'   *)
(* every call yields a normal response.                                     *)
C20_RateLimitDecidedFirst ==
  /\ ( /\ req.fn = "get_mock_response"
       /\ "used_fallback" \in DOMAIN locals ) =>
       ( /\ "rate_limited" \in DOMAIN locals
         /\ ~locals.rate_limited )
  /\ ( /\ Done("get_mock_response")
       /\ Returned
       /\ "error" \in DOMAIN outcome.value ) =>
       ( /\ "Rate Limiting" \in req.demo_modes
         /\ outcome.value.error = "rate_limit_exceeded"
         /\ outcome.value.retry_after = 30
         /\ DOMAIN outcome.value
              \cap {"response", "model", "used_fallback", "usage"} = {}
         /\ locals.rate_limited
         /\ "used_fallback" \notin DOMAIN locals )
  /\ ( /\ Done("get_mock_response")
       /\ "Rate Limiting" \notin req.demo_modes ) =>
       NormalResponse

-----------------------------------------------------------------------------
\* The sum of a field over the entries of the request history
RECURSIVE HistorySum(_, _)
HistorySum(history, field) ==
  IF history = <<>> THEN 0
  ELSE history[1][field] + HistorySum(Tail(history), field)

TotalsMatchHistory ==
  /\ session_state.token_usage.input
       = HistorySum(session_state.request_history, "input_tokens")
  /\ session_state.token_usage.output
       = HistorySum(session_state.request_history, "output_tokens")

Cleared ==
  /\ session_state.messages = <<>>
  /\ session_state.token_usage = [input |-> 0, output |-> 0]
  /\ session_state.request_history = <<>>
  /\ session_state.last_route = NoStr

(* C21: after any sequence of query submissions and Clear Chat presses the  *)
(* token_usage input total is the sum of input_tokens over the entries of   *)
(* request_history and the output total the sum of their output_tokens;     *)
(* Clear Chat leaves messages empty, both totals 0, request_history empty   *)
(* and last_route None.                                                     *)
C21_TotalsMatchHistory ==
  /\ []TotalsMatchHistory
  /\ [][Dashboard_clear_chat => Cleared']_vars

-----------------------------------------------------------------------------
\* The event the last run served was a query that requests.post answered
ReceivedResponse == req.fn = "submit_query" /\ req.http.kind = "response"

StartsWith(s, prefix) ==
  Len(s) >= Len(prefix) /\ SubSeq(s, 1, Len(prefix)) = prefix

\* The last message is the one the except branch writes, lines 282-283.
EndedInException ==
  /\ session_state.messages # <<>>
  /\ StartsWith(session_state.messages[Len(session_state.messages)].content,
                "Connection error: ")

\* The messages are user, assistant, user, assistant, ...
Alternates ==
  \A i \in 1..Len(session_state.messages) :
    session_state.messages[i].role
      = IF i % 2 = 1 THEN "user" ELSE "assistant"

Assistants ==
  {i \in 1..Len(session_state.messages) :
     session_state.messages[i].role = "assistant"}

\* A step appends one user message and then one assistant message.
AppendsUserThenAssistant ==
  /\ Len(session_state.messages') = Len(session_state.messages) + 2
  /\ SubSeq(session_state.messages', 1, Len(session_state.messages))
       = session_state.messages
  /\ session_state.messages'[Len(session_state.messages) + 1].role = "user"
  /\ session_state.messages'[Len(session_state.messages) + 2].role
       = "assistant"

\* A step adds this many entries at the end of request_history.
HistoryGains(n) ==
  /\ Len(session_state.request_history')
       = Len(session_state.request_history) + n
  /\ SubSeq(session_state.request_history', 1,
            Len(session_state.request_history))
       = session_state.request_history

(* C22: every submitted query appends exactly one user message immediately  *)
(* followed by exactly one assistant message, whatever the outcome, so the  *)
(* messages alternate user, assistant starting with user; request_history   *)
(* gains exactly one entry for a query that received an HTTP response and   *)
(* none for a query that ended in an exception, so it is never longer than  *)
(* the number of assistant messages.                                        *)
C22_OneExchangePerQuery ==
  /\ [][Dashboard_submit_query => AppendsUserThenAssistant]_vars
  /\ []Alternates
  /\ [][Dashboard_submit_query =>
          /\ ReceivedResponse' => HistoryGains(1)
          /\ EndedInException' => HistoryGains(0)]_vars
  /\ [](Len(session_state.request_history) <= Cardinality(Assistants))

====
